---- MODULE Spec2Model ----
(***************************************************************************)
(* The collaboration loop of src/workflow.py (CollaborationWorkflow): the  *)
(* four run methods, the budget governor, the usage meter, the progress    *)
(* detector and the approval detector.                                     *)
(*                                                                         *)
(* Texts are sequences of one-character strings.  The two backends and the *)
(* checkpoint prompt (Confirm.ask) are external: every answer they give is *)
(* a nondeterministic choice.  Literal template text is never inspected by *)
(* the workflow, only measured (len(prompt + response)), so Lit(n) stands  *)
(* for n characters of it.                                                 *)
(*                                                                         *)
(* Money is counted in units of 10^-7 currency (CostUnit units are one     *)
(* currency unit), so that tokens / 1_000_000 * rate is the integer        *)
(* tokens * (10 * rate); float rounding of the running sum is not          *)
(* modelled.  early_stop_similarity is a percentage (95 is 0.95).          *)
(*                                                                         *)
(* An optional value (None or a number) is <<>> or <<v>>.                  *)
(***************************************************************************)
EXTENDS Integers, Sequences, FiniteSets, TLC

\* Largest max_iterations a constructed instance is given.
MaxIter == 4

\* Most runs of one instance that are followed where runs are counted.
MaxRuns == 2

\* No run is followed beyond this many backend calls; the longest run of an
\* instance makes 2 * MaxIter + 2 of them.
MaxCalls == 2 * MaxIter + 4

\* ------------------------------------------------------------------ texts

Lit(n) == [i \in 1..n |-> "."]

Upper(c) ==
    CASE c = "a" -> "A" [] c = "b" -> "B" [] c = "c" -> "C" [] c = "d" -> "D"
      [] c = "e" -> "E" [] c = "f" -> "F" [] c = "g" -> "G" [] c = "h" -> "H"
      [] c = "i" -> "I" [] c = "j" -> "J" [] c = "k" -> "K" [] c = "l" -> "L"
      [] c = "m" -> "M" [] c = "n" -> "N" [] c = "o" -> "O" [] c = "p" -> "P"
      [] c = "q" -> "Q" [] c = "r" -> "R" [] c = "s" -> "S" [] c = "t" -> "T"
      [] c = "u" -> "U" [] c = "v" -> "V" [] c = "w" -> "W" [] c = "x" -> "X"
      [] c = "y" -> "Y" [] c = "z" -> "Z"
      [] OTHER -> c

\* str.upper()
ToUpper(s) == [i \in 1..Len(s) |-> Upper(s[i])]

\* needle in hay (Python's substring test)
Contains(hay, needle) ==
    \E i \in 0..(Len(hay) - Len(needle)) :
        \A k \in 1..Len(needle) : hay[i + k] = needle[k]

APPROVED_MARKER == <<"[", "A", "P", "P", "R", "O", "V", "E", "D", "]">>

\* What the developer backend may answer: two near-identical artifacts
\* (ratio 0.75) and the empty text.
ProducerTexts ==
    { <<"a", "b", "c", "d">>, <<"a", "b", "c", "e">>, <<>> }

\* What the manager backend may answer: a rejection and an approval.
Rejection == <<"n", "o">>
Approval ==
    <<"o", "k", " ", "[", "a", "p", "p", "r", "o", "v", "e", "d", "]">>
ReviewerTexts == { Rejection, Approval }

\* Seed inputs of a run.
SeedTexts == { <<"t", "o", "d", "o">> }
ContextTexts == { <<>>, <<"c", "x">> }

\* A local variable not yet assigned (Python would raise on reading it).
Unbound == <<"<unbound>">>

\* ----------------------------------------------------------------- enums

PLANNING == "planning"
IMPLEMENTATION == "implementation"
REVIEW == "review"
APPROVED == "approved"

\* --------------------------------------------------------------- prompts

DEVELOPER_PLAN_PROMPT(requirements) == Lit(12) \o requirements

MANAGER_PLANNING_PROMPT(requirements, plan) ==
    Lit(6) \o requirements \o Lit(6) \o plan

DEVELOPER_IMPLEMENT_PROMPT(requirements, instructions) ==
    Lit(6) \o requirements \o Lit(6) \o instructions

DEVELOPER_REVISE_PROMPT(requirements, prev, feedback) ==
    Lit(4) \o requirements \o Lit(4) \o prev \o Lit(4) \o feedback

\* task_type is always the literal "implementation" (14 characters)
MANAGER_REVIEW_PROMPT(task_type, requirements, submission) ==
    Lit(4) \o task_type \o Lit(4) \o requirements \o Lit(4) \o submission

ReviewRequest(code, ctx) ==
    Lit(16) \o code \o (IF ctx # <<>> THEN Lit(8) \o ctx ELSE <<>>)

ReviewDevPrompt(manager_review, code) ==
    Lit(19) \o manager_review \o Lit(9) \o code \o Lit(27)

ReReviewPrompt(prev) == Lit(17) \o prev \o Lit(12)

ReviewRevisePrompt(final_review, prev) ==
    Lit(13) \o final_review \o Lit(10) \o prev \o Lit(12)

PlanRevisePrompt(feedback, previous_plan) ==
    Lit(31) \o feedback \o Lit(9) \o previous_plan

DocRequest(topic, ctx) ==
    Lit(22) \o topic \o (IF ctx # <<>> THEN Lit(11) \o ctx ELSE <<>>)

DocRevisePrompt(feedback, previous_doc) ==
    Lit(31) \o feedback \o Lit(9) \o previous_doc

DocReviewPrompt(topic, developer_doc) ==
    Lit(20) \o topic \o Lit(6) \o developer_doc

\* ---------------------------------------------------------------- state

VARIABLES
    \* what the constructor was called with: the budget mode and the limits
    \* the caller supplied (each <<>> when omitted)
    budget_mode, supplied,
    \* the instance's configuration, fixed at construction
    max_iterations, max_tokens, max_cost, checkpoint_interval,
    max_no_progress, early_stop_similarity, manager, developer,
    \* the instance's mutable fields
    conversation_history, total_tokens, total_cost, no_progress_count,
    previous_submission_text,
    \* the running method: its position and its local variables
    pc, task, requirements, context, current_phase, stopped_reason, iterations,
    previous_submission, manager_feedback,
    \* the run methods called on this instance so far, <<n>>, in the
    \* specifications that count them (<<>> in the others)
    runs,
    \* what the method returned (<<>> or <<WorkflowResult>>)
    result,
    \* the collaborators, as the run has used them: chat calls the backends
    \* received, result files written, and the number of the current loop
    \* iteration (0 before the loop) with the chat calls, tokens and cost
    \* at its start
    calls, saved, iter_start

cfgVars == <<budget_mode, supplied, max_iterations, max_tokens, max_cost,
             checkpoint_interval, max_no_progress, early_stop_similarity,
             manager, developer>>
usageVars == <<total_tokens, total_cost>>
progressVars == <<no_progress_count, previous_submission_text>>
seedVars == <<task, requirements, context, runs>>
vars == <<cfgVars, conversation_history, usageVars, progressVars, pc,
          seedVars, current_phase, stopped_reason, iterations,
          previous_submission, manager_feedback, result, calls, saved,
          iter_start>>

\* ------------------------------------------------------- budget governor

CostUnit == 10000000

Presets(mode) ==
    CASE mode = "economy" ->
           [max_iterations |-> 5, max_tokens |-> 30000,
            max_cost |-> 1 * CostUnit, checkpoint_interval |-> 3]
      [] mode = "quality" ->
           [max_iterations |-> 15, max_tokens |-> 100000,
            max_cost |-> 5 * CostUnit, checkpoint_interval |-> 7]
      [] OTHER ->
           [max_iterations |-> 10, max_tokens |-> 50000,
            max_cost |-> 2 * CostUnit, checkpoint_interval |-> 5]

\* _apply_budget_mode: the four resolved limits.  max_iter is a number
\* (its default is 10); the other three are optional.
ApplyBudgetMode(mode, max_iter, max_tok, max_c, checkpoint) ==
    LET preset == Presets(mode) IN
    [max_iterations |-> IF max_iter # 10 THEN max_iter
                        ELSE preset.max_iterations,
     max_tokens |-> IF max_tok # <<>> THEN max_tok[1] ELSE preset.max_tokens,
     max_cost |-> IF max_c # <<>> THEN max_c[1] ELSE preset.max_cost,
     checkpoint_interval |-> IF checkpoint # <<>> THEN checkpoint[1]
                             ELSE preset.checkpoint_interval]

\* Python's truth value of a number
Truthy(n) == n # 0

\* A budget check that forgets the cost limit.
CheckBudgetLimitsTokensOnly(tokens, cost) ==
    IF Truthy(max_tokens) /\ tokens >= max_tokens
    THEN [exceeded |-> TRUE, reason |-> "max_tokens"]
    ELSE [exceeded |-> FALSE, reason |-> ""]

\* A budget check that tests the cost limit first.
CheckBudgetLimitsCostFirst(tokens, cost) ==
    IF Truthy(max_cost) /\ cost >= max_cost
    THEN [exceeded |-> TRUE, reason |-> "max_cost"]
    ELSE IF Truthy(max_tokens) /\ tokens >= max_tokens
    THEN [exceeded |-> TRUE, reason |-> "max_tokens"]
    ELSE [exceeded |-> FALSE, reason |-> ""]

\* A budget check written with > where the code has >=.
CheckBudgetLimitsStrict(tokens, cost) ==
    IF Truthy(max_tokens) /\ tokens > max_tokens
    THEN [exceeded |-> TRUE, reason |-> "max_tokens"]
    ELSE IF Truthy(max_cost) /\ cost > max_cost
    THEN [exceeded |-> TRUE, reason |-> "max_cost"]
    ELSE [exceeded |-> FALSE, reason |-> ""]

\* _check_budget_limits
CheckBudgetLimits(tokens, cost) ==
    IF Truthy(max_tokens) /\ tokens >= max_tokens
    THEN [exceeded |-> TRUE, reason |-> "max_tokens"]
    ELSE IF Truthy(max_cost) /\ cost >= max_cost
    THEN [exceeded |-> TRUE, reason |-> "max_cost"]
    ELSE [exceeded |-> FALSE, reason |-> ""]

\* A checkpoint test on the iteration count before its increment.
CheckpointDueBefore(iters) ==
    Truthy(checkpoint_interval) /\ (iters - 1) % checkpoint_interval = 0

\* _user_checkpoint: whether Confirm.ask is called at this iteration
CheckpointDue(iters) ==
    Truthy(checkpoint_interval) /\ iters % checkpoint_interval = 0

\* A loop written with != where the code has <.
LoopCondNotEqual(iters) == iters # max_iterations

\* A loop written with <= where the code has <.
LoopCondInclusive(iters) == iters <= max_iterations

\* the loop condition of the four while loops
LoopCond(iters) == iters < max_iterations

\* ----------------------------------------------------------- usage meter

\* An estimate that rounds up.
EstimateTokensRoundedUp(text) == (Len(text) + 3) \div 4

\* _estimate_tokens
EstimateTokens(text) == Len(text) \div 4

\* the rate per million tokens, times ten
CostMap(provider, model) ==
    CASE provider = "openai" /\ model = "gpt-4o" -> 25
      [] provider = "openai" /\ model = "gpt-5.1-codex-mini" -> 10
      [] provider = "openai" /\ model = "o1-mini" -> 30
      [] provider = "anthropic" /\ model = "claude-sonnet-4-20250514" -> 30
      [] provider = "anthropic" /\ model = "claude-opus-4-20250514" -> 150
      [] OTHER -> 20

EstimateCost(tokens, provider, model) == tokens * CostMap(provider, model)

\* _track_usage: the new totals
TrackUsage(text, client) ==
    LET tokens == EstimateTokens(text) IN
    [tokens |-> total_tokens + tokens,
     cost |-> total_cost + EstimateCost(tokens, client.provider, client.model)]

\* ------------------------------------------------------ progress detector

Min(a, b) == IF a < b THEN a ELSE b

\* SequenceMatcher.find_longest_match on a[alo..ahi-1], b[blo..bhi-1]: the
\* longest common block, of those the one starting earliest in a, and of
\* those the one starting earliest in b; <<alo, blo, 0>> when there is none.
FindLongestMatch(a, b, alo, ahi, blo, bhi) ==
    LET cand == { c \in (alo..(ahi - 1)) \X (blo..(bhi - 1)) \X (1..Len(a)) :
                    /\ c[3] <= Min(ahi - c[1], bhi - c[2])
                    /\ \A t \in 0..(c[3] - 1) : a[c[1] + t] = b[c[2] + t] }
        Better(c, d) ==
            \/ c[3] > d[3]
            \/ c[3] = d[3] /\ c[1] < d[1]
            \/ c[3] = d[3] /\ c[1] = d[1] /\ c[2] <= d[2]
    IN IF cand = {} THEN <<alo, blo, 0>>
       ELSE CHOOSE c \in cand : \A d \in cand : Better(c, d)

\* SequenceMatcher.get_matching_blocks, summed: the number of matched
\* characters
RECURSIVE Matches(_, _, _, _, _, _)
Matches(a, b, alo, ahi, blo, bhi) ==
    LET m == FindLongestMatch(a, b, alo, ahi, blo, bhi) IN
    IF m[3] = 0 THEN 0
    ELSE m[3]
         + (IF alo < m[1] /\ blo < m[2]
            THEN Matches(a, b, alo, m[1], blo, m[2]) ELSE 0)
         + (IF m[1] + m[3] < ahi /\ m[2] + m[3] < bhi
            THEN Matches(a, b, m[1] + m[3], ahi, m[2] + m[3], bhi) ELSE 0)

\* A similarity without the guard for empty texts: ratio() alone, which is
\* 1.0 for two empty texts.
SimilarityOfRatioAtLeast(text1, text2, percent) ==
    IF text1 = <<>> /\ text2 = <<>>
    THEN 100 >= percent
    ELSE 200 * Matches(text1, text2, 1, Len(text1) + 1, 1, Len(text2) + 1)
           >= percent * (Len(text1) + Len(text2))

\* _calculate_similarity(text1, text2) >= threshold, the threshold a
\* percentage: ratio() is 2.0 * matches / (len(a) + len(b))
SimilarityAtLeast(text1, text2, percent) ==
    IF text1 = <<>> \/ text2 = <<>>
    THEN 0 >= percent
    ELSE 200 * Matches(text1, text2, 1, Len(text1) + 1, 1, Len(text2) + 1)
           >= percent * (Len(text1) + Len(text2))

\* A progress check written with <= where the code has <.
CheckProgressLate(current_submission) ==
    IF previous_submission_text = <<>>
    THEN [ok |-> TRUE, count |-> no_progress_count,
          prev |-> <<current_submission>>]
    ELSE LET n == IF SimilarityAtLeast(previous_submission_text[1],
                                       current_submission,
                                       early_stop_similarity)
                  THEN no_progress_count + 1 ELSE 0
         IN [ok |-> n <= max_no_progress, count |-> n,
             prev |-> <<current_submission>>]

\* A progress check that stops one repetition early.
CheckProgressEarly(current_submission) ==
    IF previous_submission_text = <<>>
    THEN [ok |-> TRUE, count |-> no_progress_count,
          prev |-> <<current_submission>>]
    ELSE LET n == IF SimilarityAtLeast(previous_submission_text[1],
                                       current_submission,
                                       early_stop_similarity)
                  THEN no_progress_count + 1 ELSE 0
         IN [ok |-> n + 1 < max_no_progress, count |-> n,
             prev |-> <<current_submission>>]

\* _check_progress: the value returned and the detector's new state
CheckProgress(current_submission) ==
    IF previous_submission_text = <<>>
    THEN [ok |-> TRUE, count |-> no_progress_count,
          prev |-> <<current_submission>>]
    ELSE LET n == IF SimilarityAtLeast(previous_submission_text[1],
                                       current_submission,
                                       early_stop_similarity)
                  THEN no_progress_count + 1 ELSE 0
         IN [ok |-> n < max_no_progress, count |-> n,
             prev |-> <<current_submission>>]

\* ------------------------------------------------------ approval detector

\* An approval check that forgets upper().
CheckApprovalCaseSensitive(response) == Contains(response, APPROVED_MARKER)

\* _check_approval
CheckApproval(response) == Contains(ToUpper(response), APPROVED_MARKER)

\* ----------------------------------------------------------- turn recorder

\* A recorder that keeps only the latest turn of a run.
AddTurnOverwriting(role, content, phase) ==
    <<[role |-> role, content |-> content, phase |-> phase]>>

\* A recorder that files every turn under the manager.
AddTurnAsManager(role, content, phase) ==
    Append(conversation_history,
           [role |-> "manager", content |-> content, phase |-> phase])

\* _add_turn: the history with the turn appended (timestamps not modelled)
AddTurn(role, content, phase) ==
    Append(conversation_history,
           [role |-> role, content |-> content, phase |-> phase])

\* ----------------------------------------------------------- construction

\* The clients of create_workflow, as _track_usage reads them: an
\* OpenAIClient and an AnthropicClient with their default models.  Neither
\* class has a provider attribute, so getattr(client, "provider",
\* "unknown") answers "unknown".
ManagerClient == [provider |-> "unknown", model |-> "gpt-4o"]
DeveloperClient ==
    [provider |-> "unknown", model |-> "claude-sonnet-4-20250514"]

\* The limits an instance is constructed with: max_iterations explicit,
\* max_tokens omitted (the balanced preset), zero or small, max_cost zero
\* or small, checkpoint_interval zero or small.
IterChoices == 0..MaxIter
TokenChoices == { <<>>, <<0>>, <<20>> }
CostChoices == { <<0>>, <<500>> }
CheckpointChoices == { <<0>>, <<1>>, <<2>> }
NoProgressChoices == { 1, 2, 3 }
SimilarityChoices == { 75 }

NoIteration == [n |-> 0, calls |-> 0, tokens |-> 0, cost |-> 0]

\* CollaborationWorkflow.__init__, with the clients of create_workflow
Init ==
    /\ \E mi \in IterChoices, mt \in TokenChoices, mc \in CostChoices,
          ci \in CheckpointChoices :
         LET r == ApplyBudgetMode("balanced", mi, mt, mc, ci) IN
         /\ budget_mode = "balanced"
         /\ supplied = [max_iterations |-> <<mi>>, max_tokens |-> mt,
                         max_cost |-> mc, checkpoint_interval |-> ci]
         /\ max_iterations = r.max_iterations
         /\ max_tokens = r.max_tokens
         /\ max_cost = r.max_cost
         /\ checkpoint_interval = r.checkpoint_interval
    /\ max_no_progress \in NoProgressChoices
    /\ early_stop_similarity \in SimilarityChoices
    /\ manager = ManagerClient
    /\ developer = DeveloperClient
    /\ conversation_history = <<>>
    /\ total_tokens = 0
    /\ total_cost = 0
    /\ no_progress_count = 0
    /\ previous_submission_text = <<>>
    /\ pc = "idle"
    /\ runs = <<>>
    /\ task = ""
    /\ requirements = <<>>
    /\ context = <<>>
    /\ current_phase = ""
    /\ stopped_reason = ""
    /\ iterations = 0
    /\ previous_submission = <<>>
    /\ manager_feedback = Unbound
    /\ result = <<>>
    /\ calls = 0
    /\ saved = <<>>
    /\ iter_start = NoIteration

\* ------------------------------------------------------- steps of a run

\* A run method that does not reset the progress detector.
EnterKeepingStreak(t, seed, ctx, phase, first) ==
    /\ pc \in {"idle", "done", "raised"}
    /\ runs # <<>> => runs[1] < MaxRuns
    /\ runs' = IF runs = <<>> THEN <<>> ELSE <<runs[1] + 1>>
    /\ conversation_history' = <<>>
    /\ total_tokens' = 0
    /\ total_cost' = 0
    /\ UNCHANGED progressVars
    /\ current_phase' = phase
    /\ stopped_reason' = ""
    /\ task' = t
    /\ requirements' = seed
    /\ context' = ctx
    /\ iterations' = 0
    /\ previous_submission' = <<>>
    /\ manager_feedback' = Unbound
    /\ result' = <<>>
    /\ calls' = 0
    /\ saved' = <<>>
    /\ iter_start' = NoIteration
    /\ pc' = first
    /\ UNCHANGED cfgVars

\* The first lines of each run method: the instance's run state is reset
\* and the locals are initialised.  A method is entered when none is
\* running: on a fresh instance, after an earlier run has returned or
\* after an earlier run was left by an exception.
Enter(t, seed, ctx, phase, first) ==
    /\ pc \in {"idle", "done", "raised"}
    /\ runs # <<>> => runs[1] < MaxRuns
    /\ runs' = IF runs = <<>> THEN <<>> ELSE <<runs[1] + 1>>
    /\ conversation_history' = <<>>
    /\ total_tokens' = 0
    /\ total_cost' = 0
    /\ no_progress_count' = 0
    /\ previous_submission_text' = <<>>
    /\ current_phase' = phase
    /\ stopped_reason' = ""
    /\ task' = t
    /\ requirements' = seed
    /\ context' = ctx
    /\ iterations' = 0
    /\ previous_submission' = <<>>
    /\ manager_feedback' = Unbound
    /\ result' = <<>>
    /\ calls' = 0
    /\ saved' = <<>>
    /\ iter_start' = NoIteration
    /\ pc' = first
    /\ UNCHANGED cfgVars

\* One backend call: client.chat answers response, then _track_usage and
\* _add_turn.
Chat(client, role, prompt, response, phase) ==
    LET u == TrackUsage(prompt \o response, client) IN
    /\ calls < MaxCalls
    /\ total_tokens' = u.tokens
    /\ total_cost' = u.cost
    /\ conversation_history' = AddTurn(role, response, phase)
    /\ calls' = calls + 1

\* A loop head that counts an iteration only once its budget check passed.
LoopHeadCountingLate(here, ask, body, end) ==
    /\ pc = here
    /\ IF LoopCond(iterations)
       THEN LET b == CheckBudgetLimits(total_tokens, total_cost) IN
            /\ iterations' = IF b.exceeded THEN iterations
                              ELSE iterations + 1
            /\ iter_start' = [n |-> iterations + 1, calls |-> calls,
                              tokens |-> total_tokens, cost |-> total_cost]
            /\ IF b.exceeded
               THEN stopped_reason' = b.reason /\ pc' = end
               ELSE /\ UNCHANGED stopped_reason
                    /\ pc' = IF CheckpointDue(iterations + 1)
                             THEN ask ELSE body
       ELSE /\ pc' = end
            /\ UNCHANGED <<iterations, iter_start, stopped_reason>>
    /\ UNCHANGED <<cfgVars, conversation_history, usageVars, progressVars,
                   seedVars, current_phase, previous_submission,
                   manager_feedback, result, calls, saved>>

\* The head of a loop iteration: the while test, iterations += 1, the
\* budget check and the checkpoint test, up to the point where the method
\* blocks (in Confirm.ask or in the iteration's first backend call).
LoopHead(here, ask, body, end) ==
    /\ pc = here
    /\ IF LoopCond(iterations)
       THEN LET b == CheckBudgetLimits(total_tokens, total_cost) IN
            /\ iterations' = iterations + 1
            /\ iter_start' = [n |-> iterations + 1, calls |-> calls,
                              tokens |-> total_tokens, cost |-> total_cost]
            /\ IF b.exceeded
               THEN stopped_reason' = b.reason /\ pc' = end
               ELSE /\ UNCHANGED stopped_reason
                    /\ pc' = IF CheckpointDue(iterations + 1)
                             THEN ask ELSE body
       ELSE /\ pc' = end
            /\ UNCHANGED <<iterations, iter_start, stopped_reason>>
    /\ UNCHANGED <<cfgVars, conversation_history, usageVars, progressVars,
                   seedVars, current_phase, previous_submission,
                   manager_feedback, result, calls, saved>>

\* Confirm.ask returns: the user continues or stops.
Checkpoint(here, body, end) ==
    /\ pc = here
    /\ \E answer \in BOOLEAN :
         IF answer
         THEN pc' = body /\ UNCHANGED stopped_reason
         ELSE pc' = end /\ stopped_reason' = "user_stopped"
    /\ UNCHANGED <<cfgVars, conversation_history, usageVars, progressVars,
                   seedVars, current_phase, iterations, previous_submission,
                   manager_feedback, result, calls, saved, iter_start>>

RoleUpper(role) ==
    CASE role = "manager" -> "MANAGER"
      [] role = "developer" -> "DEVELOPER"
      [] OTHER -> role

\* The characters of a role name and of a phase's value.
RoleChars(role) ==
    CASE role = "manager" -> <<"m", "a", "n", "a", "g", "e", "r">>
      [] role = "developer" ->
           <<"d", "e", "v", "e", "l", "o", "p", "e", "r">>

PhaseChars(phase) ==
    CASE phase = PLANNING -> <<"p", "l", "a", "n", "n", "i", "n", "g">>
      [] phase = IMPLEMENTATION ->
           <<"i", "m", "p", "l", "e", "m", "e", "n", "t", "a", "t", "i", "o", "n">>
      [] phase = REVIEW -> <<"r", "e", "v", "i", "e", "w">>
      [] phase = APPROVED -> <<"a", "p", "p", "r", "o", "v", "e", "d">>

NL == "\n"

\* f.write(f"### {turn.role.upper()} ({turn.phase.value})\n\n") and
\* f.write(f"{turn.content}\n\n---\n\n"), for the turns of h in order
RECURSIVE TurnsText(_)
TurnsText(h) ==
    IF h = <<>> THEN <<>>
    ELSE <<"#", "#", "#", " ">> \o ToUpper(RoleChars(Head(h).role))
         \o <<" ", "(">> \o PhaseChars(Head(h).phase) \o <<")", NL, NL>>
         \o Head(h).content \o <<NL, NL, "-", "-", "-", NL, NL>>
         \o TurnsText(Tail(h))

\* The text _save_result writes: the title, the generation time (41
\* characters with its label), the requirements, the final output and the
\* conversation history; the words of the fixed lines are Lit.
FileText(reqs, output) ==
    <<"#", " ">> \o Lit(23) \o <<NL, NL>>
    \o Lit(41) \o <<NL, NL>>
    \o <<"#", "#", " ">> \o Lit(12) \o <<NL, NL>> \o reqs \o <<NL, NL>>
    \o <<"#", "#", " ">> \o Lit(12) \o <<NL, NL>> \o output \o <<NL, NL>>
    \o <<"#", "#", " ">> \o Lit(20) \o <<NL, NL>>
    \o TurnsText(conversation_history)

\* _save_result: what is written (sections: the turns as handed to the
\* writer; file: the text of the file)
SaveResult(reqs, output) ==
    [requirements |-> reqs, output |-> output,
     sections |-> [i \in 1..Len(conversation_history) |->
                     [label |-> RoleUpper(conversation_history[i].role),
                      phase |-> conversation_history[i].phase,
                      content |-> conversation_history[i].content]],
     file |-> FileText(reqs, output)]

\* A return that leaves the stop reason as the loop left it.
FinishNoDefault(here, save) ==
    /\ pc = here
    /\ UNCHANGED stopped_reason
    /\ result' = <<[success |-> current_phase = APPROVED,
                    final_output |-> previous_submission,
                    conversation_history |-> conversation_history,
                    iterations |-> iterations,
                    phase |-> current_phase,
                    total_tokens |-> total_tokens,
                    total_cost |-> total_cost,
                    stopped_reason |-> stopped_reason]>>
    /\ saved' = IF save
                THEN Append(saved, SaveResult(requirements,
                                              previous_submission))
                ELSE saved
    /\ pc' = "done"
    /\ UNCHANGED <<cfgVars, conversation_history, usageVars, progressVars,
                   seedVars, current_phase, iterations, previous_submission,
                   manager_feedback, calls, iter_start>>

\* A return that reports success for every run that no stop condition
\* ended.
FinishLenient(here, save) ==
    /\ pc = here
    /\ LET reason == IF stopped_reason = "" THEN "max_iterations"
                     ELSE stopped_reason IN
       /\ stopped_reason' = reason
       /\ result' = <<[success |-> stopped_reason \in {"", "approved"},
                       final_output |-> previous_submission,
                       conversation_history |-> conversation_history,
                       iterations |-> iterations,
                       phase |-> current_phase,
                       total_tokens |-> total_tokens,
                       total_cost |-> total_cost,
                       stopped_reason |-> reason]>>
    /\ saved' = IF save
                THEN Append(saved, SaveResult(requirements,
                                              previous_submission))
                ELSE saved
    /\ pc' = "done"
    /\ UNCHANGED <<cfgVars, conversation_history, usageVars, progressVars,
                   seedVars, current_phase, iterations, previous_submission,
                   manager_feedback, calls, iter_start>>

\* After the loop: the default stop reason, the result file (development
\* only) and the WorkflowResult returned.
Finish(here, save) ==
    /\ pc = here
    /\ LET reason == IF stopped_reason = "" THEN "max_iterations"
                     ELSE stopped_reason IN
       /\ stopped_reason' = reason
       /\ result' = <<[success |-> current_phase = APPROVED,
                       final_output |-> previous_submission,
                       conversation_history |-> conversation_history,
                       iterations |-> iterations,
                       phase |-> current_phase,
                       total_tokens |-> total_tokens,
                       total_cost |-> total_cost,
                       stopped_reason |-> reason]>>
    /\ saved' = IF save
                THEN Append(saved, SaveResult(requirements,
                                              previous_submission))
                ELSE saved
    /\ pc' = "done"
    /\ UNCHANGED <<cfgVars, conversation_history, usageVars, progressVars,
                   seedVars, current_phase, iterations, previous_submission,
                   manager_feedback, calls, iter_start>>

\* ------------------------------------------------------- run_development

DevEnter ==
    \E seed \in SeedTexts :
        Enter("code_development", seed, <<>>, PLANNING, "dev_plan")

\* Phase 1: the developer's plan (previous_submission holds developer_plan
\* from here on; the code assigns it before the loop)
DevPlan ==
    /\ pc = "dev_plan"
    /\ \E developer_plan \in ProducerTexts :
         /\ Chat(developer, "developer",
                 DEVELOPER_PLAN_PROMPT(requirements), developer_plan,
                 current_phase)
         /\ previous_submission' = developer_plan
    /\ pc' = "dev_plan_review"
    /\ UNCHANGED <<cfgVars, progressVars, seedVars, current_phase,
                   stopped_reason, iterations, manager_feedback, result,
                   saved, iter_start>>

\* Phase 2: the manager's review of the plan; then the loop's locals
DevPlanReview ==
    /\ pc = "dev_plan_review"
    /\ \E feedback \in ReviewerTexts :
         /\ Chat(manager, "manager",
                 MANAGER_PLANNING_PROMPT(requirements, previous_submission),
                 feedback, current_phase)
         /\ manager_feedback' = feedback
    /\ current_phase' = IMPLEMENTATION
    /\ iterations' = 0
    /\ pc' = "dev_loop"
    /\ UNCHANGED <<cfgVars, progressVars, seedVars, stopped_reason,
                   previous_submission, result, saved, iter_start>>

DevLoop == LoopHead("dev_loop", "dev_checkpoint", "dev_impl", "dev_end")

DevCheckpoint == Checkpoint("dev_checkpoint", "dev_impl", "dev_end")

\* The developer implements or revises; the progress check
DevImplement ==
    /\ pc = "dev_impl"
    /\ \E developer_response \in ProducerTexts :
         LET impl_prompt ==
                 IF iterations = 1
                 THEN DEVELOPER_IMPLEMENT_PROMPT(requirements,
                                                 manager_feedback)
                 ELSE DEVELOPER_REVISE_PROMPT(requirements,
                                              previous_submission,
                                              manager_feedback)
             p == CheckProgress(developer_response)
         IN /\ Chat(developer, "developer", impl_prompt, developer_response,
                    current_phase)
            /\ previous_submission' = developer_response
            /\ no_progress_count' = p.count
            /\ previous_submission_text' = p.prev
            /\ IF p.ok
               THEN /\ current_phase' = REVIEW
                    /\ pc' = "dev_review"
                    /\ UNCHANGED stopped_reason
               ELSE /\ stopped_reason' = "no_progress"
                    /\ pc' = "dev_end"
                    /\ UNCHANGED current_phase
    /\ UNCHANGED <<cfgVars, seedVars, iterations, manager_feedback, result,
                   saved, iter_start>>

\* A review that records the manager's turn after the approval check, under
\* the phase the check has set.
DevReviewRecordedAfter ==
    /\ pc = "dev_review"
    /\ \E feedback \in ReviewerTexts :
         /\ Chat(manager, "manager",
                 MANAGER_REVIEW_PROMPT(Lit(14), requirements,
                                       previous_submission),
                 feedback,
                 IF CheckApproval(feedback) THEN APPROVED ELSE current_phase)
         /\ manager_feedback' = feedback
         /\ IF CheckApproval(feedback)
            THEN /\ current_phase' = APPROVED
                 /\ stopped_reason' = "approved"
                 /\ pc' = "dev_end"
            ELSE /\ current_phase' = IMPLEMENTATION
                 /\ UNCHANGED stopped_reason
                 /\ pc' = "dev_loop"
    /\ UNCHANGED <<cfgVars, progressVars, seedVars, iterations,
                   previous_submission, result, saved, iter_start>>

\* The manager reviews; the approval check
DevReview ==
    /\ pc = "dev_review"
    /\ \E feedback \in ReviewerTexts :
         /\ Chat(manager, "manager",
                 MANAGER_REVIEW_PROMPT(Lit(14), requirements,
                                       previous_submission),
                 feedback, current_phase)
         /\ manager_feedback' = feedback
         /\ IF CheckApproval(feedback)
            THEN /\ current_phase' = APPROVED
                 /\ stopped_reason' = "approved"
                 /\ pc' = "dev_end"
            ELSE /\ current_phase' = IMPLEMENTATION
                 /\ UNCHANGED stopped_reason
                 /\ pc' = "dev_loop"
    /\ UNCHANGED <<cfgVars, progressVars, seedVars, iterations,
                   previous_submission, result, saved, iter_start>>

\* A return that writes the result file only for an approved run.
DevFinishOnSuccess == Finish("dev_end", current_phase = APPROVED)

DevFinish == Finish("dev_end", TRUE)

run_development ==
    \/ DevEnter
    \/ DevPlan
    \/ DevPlanReview
    \/ DevLoop
    \/ DevCheckpoint
    \/ DevImplement
    \/ DevReview
    \/ DevFinish

\* ------------------------------------------------------------ run_review

RevEnter ==
    \E code \in SeedTexts, ctx \in ContextTexts :
        Enter("code_review", code, ctx, REVIEW, "rev_initial")

\* An initial review that is tested for approval.
RevInitialTested ==
    /\ pc = "rev_initial"
    /\ \E manager_review \in ReviewerTexts :
         /\ Chat(manager, "manager", ReviewRequest(requirements, context),
                 manager_review, current_phase)
         /\ manager_feedback' = manager_review
         /\ IF CheckApproval(manager_review)
            THEN /\ current_phase' = APPROVED
                 /\ stopped_reason' = "approved"
                 /\ iterations' = 1
                 /\ pc' = "rev_end"
            ELSE /\ UNCHANGED <<current_phase, stopped_reason, iterations>>
                 /\ pc' = "rev_first"
    /\ UNCHANGED <<cfgVars, progressVars, seedVars, previous_submission,
                   result, saved, iter_start>>

\* The manager's initial review
RevInitial ==
    /\ pc = "rev_initial"
    /\ \E manager_review \in ReviewerTexts :
         /\ Chat(manager, "manager", ReviewRequest(requirements, context),
                 manager_review, current_phase)
         /\ manager_feedback' = manager_review
    /\ pc' = "rev_first"
    /\ UNCHANGED <<cfgVars, progressVars, seedVars, current_phase,
                   stopped_reason, iterations, previous_submission, result,
                   saved, iter_start>>

\* A first revision that leaves the iteration counter at zero.
RevFirstFromZero ==
    /\ pc = "rev_first"
    /\ \E developer_response \in ProducerTexts :
         /\ Chat(developer, "developer",
                 ReviewDevPrompt(manager_feedback, requirements),
                 developer_response, current_phase)
         /\ previous_submission' = developer_response
    /\ iterations' = 0
    /\ pc' = "rev_loop"
    /\ UNCHANGED <<cfgVars, progressVars, seedVars, current_phase,
                   stopped_reason, manager_feedback, result, saved,
                   iter_start>>

\* The developer's first revision; then the loop's locals
RevFirst ==
    /\ pc = "rev_first"
    /\ \E developer_response \in ProducerTexts :
         /\ Chat(developer, "developer",
                 ReviewDevPrompt(manager_feedback, requirements),
                 developer_response, current_phase)
         /\ previous_submission' = developer_response
    /\ iterations' = 1
    /\ pc' = "rev_loop"
    /\ UNCHANGED <<cfgVars, progressVars, seedVars, current_phase,
                   stopped_reason, manager_feedback, result, saved,
                   iter_start>>

RevLoop == LoopHead("rev_loop", "rev_checkpoint", "rev_rereview", "rev_end")

RevCheckpoint == Checkpoint("rev_checkpoint", "rev_rereview", "rev_end")

\* The manager re-reviews; the approval check
RevReReview ==
    /\ pc = "rev_rereview"
    /\ \E final_review \in ReviewerTexts :
         /\ Chat(manager, "manager", ReReviewPrompt(previous_submission),
                 final_review, current_phase)
         /\ manager_feedback' = final_review
         /\ IF CheckApproval(final_review)
            THEN /\ current_phase' = APPROVED
                 /\ stopped_reason' = "approved"
                 /\ pc' = "rev_end"
            ELSE /\ UNCHANGED <<current_phase, stopped_reason>>
                 /\ pc' = "rev_revise"
    /\ UNCHANGED <<cfgVars, progressVars, seedVars, iterations,
                   previous_submission, result, saved, iter_start>>

\* The developer revises again; the progress check
RevRevise ==
    /\ pc = "rev_revise"
    /\ \E developer_response \in ProducerTexts :
         LET p == CheckProgress(developer_response) IN
         /\ Chat(developer, "developer",
                 ReviewRevisePrompt(manager_feedback, previous_submission),
                 developer_response, current_phase)
         /\ no_progress_count' = p.count
         /\ previous_submission_text' = p.prev
         /\ IF p.ok
            THEN /\ previous_submission' = developer_response
                 /\ pc' = "rev_loop"
                 /\ UNCHANGED stopped_reason
            ELSE /\ stopped_reason' = "no_progress"
                 /\ pc' = "rev_end"
                 /\ UNCHANGED previous_submission
    /\ UNCHANGED <<cfgVars, seedVars, current_phase, iterations,
                   manager_feedback, result, saved, iter_start>>

RevFinish == Finish("rev_end", FALSE)

run_review ==
    \/ RevEnter
    \/ RevInitial
    \/ RevFirst
    \/ RevLoop
    \/ RevCheckpoint
    \/ RevReReview
    \/ RevRevise
    \/ RevFinish

\* ---------------------------------------------------------- run_planning

PlanEnter ==
    \E project_description \in SeedTexts :
        Enter("project_planning", project_description, <<>>, PLANNING,
              "plan_loop")

PlanLoop == LoopHead("plan_loop", "plan_checkpoint", "plan_draft", "plan_end")

PlanCheckpoint == Checkpoint("plan_checkpoint", "plan_draft", "plan_end")

\* The developer creates or revises the plan; the progress check
PlanDraft ==
    /\ pc = "plan_draft"
    /\ \E developer_plan \in ProducerTexts :
         LET plan_prompt ==
                 IF iterations = 1
                 THEN DEVELOPER_PLAN_PROMPT(requirements)
                 ELSE PlanRevisePrompt(manager_feedback, previous_submission)
             p == CheckProgress(developer_plan)
         IN /\ Chat(developer, "developer", plan_prompt, developer_plan,
                    current_phase)
            /\ no_progress_count' = p.count
            /\ previous_submission_text' = p.prev
            /\ IF p.ok
               THEN /\ previous_submission' = developer_plan
                    /\ pc' = "plan_review"
                    /\ UNCHANGED stopped_reason
               ELSE /\ stopped_reason' = "no_progress"
                    /\ pc' = "plan_end"
                    /\ UNCHANGED previous_submission
    /\ UNCHANGED <<cfgVars, seedVars, current_phase, iterations,
                   manager_feedback, result, saved, iter_start>>

\* The manager reviews the plan; the approval check
PlanReview ==
    /\ pc = "plan_review"
    /\ \E feedback \in ReviewerTexts :
         /\ Chat(manager, "manager",
                 MANAGER_PLANNING_PROMPT(requirements, previous_submission),
                 feedback, current_phase)
         /\ manager_feedback' = feedback
         /\ IF CheckApproval(feedback)
            THEN /\ current_phase' = APPROVED
                 /\ stopped_reason' = "approved"
                 /\ pc' = "plan_end"
            ELSE /\ UNCHANGED <<current_phase, stopped_reason>>
                 /\ pc' = "plan_loop"
    /\ UNCHANGED <<cfgVars, progressVars, seedVars, iterations,
                   previous_submission, result, saved, iter_start>>

PlanFinish == Finish("plan_end", FALSE)

run_planning ==
    \/ PlanEnter
    \/ PlanLoop
    \/ PlanCheckpoint
    \/ PlanDraft
    \/ PlanReview
    \/ PlanFinish

\* ----------------------------------------------------- run_documentation

DocEnter ==
    \E topic \in SeedTexts, ctx \in ContextTexts :
        Enter("documentation", topic, ctx, IMPLEMENTATION, "doc_loop")

DocLoop == LoopHead("doc_loop", "doc_checkpoint", "doc_write", "doc_end")

DocCheckpoint == Checkpoint("doc_checkpoint", "doc_write", "doc_end")

\* The developer writes or revises the document; the progress check
DocWrite ==
    /\ pc = "doc_write"
    /\ \E developer_doc \in ProducerTexts :
         LET doc_prompt ==
                 IF iterations = 1
                 THEN DocRequest(requirements, context)
                 ELSE DocRevisePrompt(manager_feedback, previous_submission)
             p == CheckProgress(developer_doc)
         IN /\ Chat(developer, "developer", doc_prompt, developer_doc,
                    current_phase)
            /\ no_progress_count' = p.count
            /\ previous_submission_text' = p.prev
            /\ IF p.ok
               THEN /\ previous_submission' = developer_doc
                    /\ current_phase' = REVIEW
                    /\ pc' = "doc_review"
                    /\ UNCHANGED stopped_reason
               ELSE /\ stopped_reason' = "no_progress"
                    /\ pc' = "doc_end"
                    /\ UNCHANGED <<previous_submission, current_phase>>
    /\ UNCHANGED <<cfgVars, seedVars, iterations, manager_feedback, result,
                   saved, iter_start>>

\* The manager reviews the document; the approval check
DocReview ==
    /\ pc = "doc_review"
    /\ \E feedback \in ReviewerTexts :
         /\ Chat(manager, "manager",
                 DocReviewPrompt(requirements, previous_submission),
                 feedback, current_phase)
         /\ manager_feedback' = feedback
         /\ IF CheckApproval(feedback)
            THEN /\ current_phase' = APPROVED
                 /\ stopped_reason' = "approved"
                 /\ pc' = "doc_end"
            ELSE /\ current_phase' = IMPLEMENTATION
                 /\ UNCHANGED stopped_reason
                 /\ pc' = "doc_loop"
    /\ UNCHANGED <<cfgVars, progressVars, seedVars, iterations,
                   previous_submission, result, saved, iter_start>>

DocFinish == Finish("doc_end", FALSE)

run_documentation ==
    \/ DocEnter
    \/ DocLoop
    \/ DocCheckpoint
    \/ DocWrite
    \/ DocReview
    \/ DocFinish

\* ------------------------------------------------------- specifications

Next ==
    \/ run_development
    \/ run_review
    \/ run_planning
    \/ run_documentation

Spec == Init /\ [][Next]_vars

\* The method runs on: a step that can be taken is taken (the backends and
\* the checkpoint prompt return).
LiveSpec == Spec /\ WF_vars(Next)

\* The budget check on its own: an instance with any limits and any usage
\* totals in 0..MaxUsage, asked once.
MaxUsage == 3

BudgetInit ==
    /\ max_iterations = 1
    /\ max_tokens \in 0..MaxUsage
    /\ max_cost \in 0..MaxUsage
    /\ checkpoint_interval = 0
    /\ budget_mode = "balanced"
    /\ supplied = [max_iterations |-> <<1>>, max_tokens |-> <<max_tokens>>,
                    max_cost |-> <<max_cost>>, checkpoint_interval |-> <<0>>]
    /\ max_no_progress = 1
    /\ early_stop_similarity = 95
    /\ manager = ManagerClient
    /\ developer = DeveloperClient
    /\ conversation_history = <<>>
    /\ total_tokens \in 0..MaxUsage
    /\ total_cost \in 0..MaxUsage
    /\ no_progress_count = 0
    /\ previous_submission_text = <<>>
    /\ pc = "budget"
    /\ runs = <<>>
    /\ task = ""
    /\ requirements = <<>>
    /\ context = <<>>
    /\ current_phase = ""
    /\ stopped_reason = ""
    /\ iterations = 0
    /\ previous_submission = <<>>
    /\ manager_feedback = Unbound
    /\ result = <<>>
    /\ calls = 0
    /\ saved = <<>>
    /\ iter_start = NoIteration

\* exceeded, reason = self._check_budget_limits(), as the loops use it
BudgetCheck ==
    /\ pc = "budget"
    /\ LET b == CheckBudgetLimits(total_tokens, total_cost) IN
       /\ stopped_reason' = b.reason
       /\ pc' = IF b.exceeded THEN "budget_exceeded" ELSE "budget_ok"
    /\ UNCHANGED <<cfgVars, conversation_history, usageVars, progressVars,
                   seedVars, current_phase, iterations, previous_submission,
                   manager_feedback, result, calls, saved, iter_start>>

BudgetSpec == BudgetInit /\ [][BudgetCheck]_vars

\* The constructor on its own: any budget mode, and each limit omitted or
\* supplied; the limits are attributes not yet assigned (<<>>) until
\* _apply_budget_mode assigns them.
BudgetModes == {"economy", "balanced", "quality"}
SuppliedIterations == { <<>>, <<0>>, <<5>>, <<7>>, <<10>>, <<15>> }
SuppliedTokens == { <<>>, <<0>>, <<7>>, <<50000>> }
SuppliedCosts == { <<>>, <<0>>, <<2 * CostUnit>> }
SuppliedCheckpoints == { <<>>, <<0>>, <<5>> }

\* the default of __init__'s max_iterations parameter
DefaultMaxIterations == 10

ResolveInit ==
    /\ budget_mode \in BudgetModes
    /\ supplied \in [max_iterations : SuppliedIterations,
                      max_tokens : SuppliedTokens,
                      max_cost : SuppliedCosts,
                      checkpoint_interval : SuppliedCheckpoints]
    /\ max_iterations = <<>>
    /\ max_tokens = <<>>
    /\ max_cost = <<>>
    /\ checkpoint_interval = <<>>
    /\ max_no_progress = 3
    /\ early_stop_similarity = 95
    /\ manager = ManagerClient
    /\ developer = DeveloperClient
    /\ conversation_history = <<>>
    /\ total_tokens = 0
    /\ total_cost = 0
    /\ no_progress_count = 0
    /\ previous_submission_text = <<>>
    /\ pc = "construct"
    /\ runs = <<>>
    /\ task = ""
    /\ requirements = <<>>
    /\ context = <<>>
    /\ current_phase = ""
    /\ stopped_reason = ""
    /\ iterations = 0
    /\ previous_submission = <<>>
    /\ manager_feedback = Unbound
    /\ result = <<>>
    /\ calls = 0
    /\ saved = <<>>
    /\ iter_start = NoIteration

\* self._apply_budget_mode(budget_mode, max_iterations, max_tokens,
\* max_cost, checkpoint_interval) in __init__: an omitted max_iterations
\* arrives as the parameter's default
Construct ==
    /\ pc = "construct"
    /\ LET max_iter == IF supplied.max_iterations = <<>>
                       THEN DefaultMaxIterations
                       ELSE supplied.max_iterations[1]
           r == ApplyBudgetMode(budget_mode, max_iter, supplied.max_tokens,
                                supplied.max_cost,
                                supplied.checkpoint_interval)
       IN /\ max_iterations' = r.max_iterations
          /\ max_tokens' = r.max_tokens
          /\ max_cost' = r.max_cost
          /\ checkpoint_interval' = r.checkpoint_interval
    /\ pc' = "idle"
    /\ UNCHANGED <<budget_mode, supplied, max_no_progress,
                   early_stop_similarity, manager, developer,
                   conversation_history, usageVars, progressVars, seedVars,
                   current_phase, stopped_reason, iterations,
                   previous_submission, manager_feedback, result, calls,
                   saved, iter_start>>

ResolveSpec == ResolveInit /\ [][Construct]_vars

\* ------------------------------------------------------------ observers

TaskTypes ==
    {"code_development", "code_review", "project_planning", "documentation"}

Running == pc \notin {"idle", "done"}
Returned == pc = "done"
Outcome == result[1]

LoopHeads == {"dev_loop", "rev_loop", "plan_loop", "doc_loop"}
AskPoints ==
    {"dev_checkpoint", "rev_checkpoint", "plan_checkpoint", "doc_checkpoint"}
EndPoints == {"dev_end", "rev_end", "plan_end", "doc_end"}
CallPoints ==
    {"dev_plan", "dev_plan_review", "dev_impl", "dev_review", "rev_initial",
     "rev_first", "rev_rereview", "rev_revise", "plan_draft", "plan_review",
     "doc_write", "doc_review"}

\* The cap on backend calls never stops a run of the program.
CapNeverBinds == pc \in CallPoints => calls < MaxCalls

\* One instance used for several runs, the runs counted: the instance of
\* examples/example_usage.py, with small limits.
ReuseInit ==
    /\ LET r == ApplyBudgetMode("balanced", 2, <<>>, <<500>>, <<2>>) IN
       /\ budget_mode = "balanced"
       /\ supplied = [max_iterations |-> <<2>>, max_tokens |-> <<>>,
                       max_cost |-> <<500>>, checkpoint_interval |-> <<2>>]
       /\ max_iterations = r.max_iterations
       /\ max_tokens = r.max_tokens
       /\ max_cost = r.max_cost
       /\ checkpoint_interval = r.checkpoint_interval
    /\ max_no_progress \in {1, 2}
    /\ early_stop_similarity \in SimilarityChoices
    /\ manager = ManagerClient
    /\ developer = DeveloperClient
    /\ conversation_history = <<>>
    /\ total_tokens = 0
    /\ total_cost = 0
    /\ no_progress_count = 0
    /\ previous_submission_text = <<>>
    /\ pc = "idle"
    /\ runs = <<0>>
    /\ task = ""
    /\ requirements = <<>>
    /\ context = <<>>
    /\ current_phase = ""
    /\ stopped_reason = ""
    /\ iterations = 0
    /\ previous_submission = <<>>
    /\ manager_feedback = Unbound
    /\ result = <<>>
    /\ calls = 0
    /\ saved = <<>>
    /\ iter_start = NoIteration

ReuseSpec == ReuseInit /\ [][Next]_vars

\* ------------------------------------------------------ failing backends

\* The end point of the running method.
FlavorEnd ==
    CASE task = "code_development" -> "dev_end"
      [] task = "code_review" -> "rev_end"
      [] task = "project_planning" -> "plan_end"
      [] task = "documentation" -> "doc_end"

\* A run method that catches the exception and returns what it has.
RaiseSwallowed ==
    /\ pc \in CallPoints
    /\ pc' = FlavorEnd
    /\ UNCHANGED <<cfgVars, conversation_history, usageVars, progressVars,
                   seedVars, current_phase, stopped_reason, iterations,
                   previous_submission, manager_feedback, result, calls,
                   saved, iter_start>>

\* client.chat raises: no run method has a try statement, so the exception
\* leaves the method at the call, before _track_usage and _add_turn.
Raise ==
    /\ pc \in CallPoints
    /\ pc' = "raised"
    /\ UNCHANGED <<cfgVars, conversation_history, usageVars, progressVars,
                   seedVars, current_phase, stopped_reason, iterations,
                   previous_submission, manager_feedback, result, calls,
                   saved, iter_start>>

\* The program with backends that answer or raise.
ErrNext == Next \/ Raise

ErrSpec == Init /\ [][ErrNext]_vars

\* ----------------------------------------------------------------- claims

\* C1: every run of each of the four flavors, whatever max_iterations is
\* and whatever the backends and the checkpoint prompt answer, reaches its
\* return after finitely many steps and returns a WorkflowResult.
C1_EveryRunReturns == Running ~> (Returned /\ result # <<>>)

\* A development run that went through every iteration its ceiling allows
\* and returned.
C1_Witness ==
    /\ Returned
    /\ task = "code_development"
    /\ max_iterations = MaxIter
    /\ Outcome.iterations = MaxIter
    /\ Outcome.stopped_reason = "max_iterations"

Max(a, b) == IF a > b THEN a ELSE b

Stopped == pc \in EndPoints \cup {"done"}

\* C2: the backend calls of a run never exceed 2 * max_iterations in
\* planning and documentation, 2 + 2 * max_iterations in development and
\* max(2, 2 * max_iterations) in code review.
C2_CallsBounded ==
    /\ task \in {"project_planning", "documentation"}
         => calls <= 2 * max_iterations
    /\ task = "code_development" => calls <= 2 + 2 * max_iterations
    /\ task = "code_review" => calls <= Max(2, 2 * max_iterations)

\* A code review that used its whole allowance of calls.
C2_Witness ==
    /\ Returned
    /\ task = "code_review"
    /\ max_iterations = MaxIter
    /\ calls = 2 * MaxIter

\* C3 as claimed: an iteration that starts with total_tokens >= max_tokens
\* or total_cost >= max_cost, whatever the limits are, makes no backend call
\* and ends the run with max_tokens or max_cost.
C3_AnyLimitStops ==
    (/\ iter_start.n > 0
     /\ \/ iter_start.tokens >= max_tokens
        \/ iter_start.cost >= max_cost)
    => /\ Stopped
       /\ calls = iter_start.calls
       /\ stopped_reason \in {"max_tokens", "max_cost"}

\* C3 amended: an iteration that starts with a non-zero max_tokens reached
\* or a non-zero max_cost reached makes no backend call, leaves the
\* transcript as it was and ends the run with max_tokens or max_cost; a
\* limit of zero is not a limit and never ends a run.
C3_SetLimitStops ==
    /\ (/\ iter_start.n > 0
        /\ \/ max_tokens # 0 /\ iter_start.tokens >= max_tokens
           \/ max_cost # 0 /\ iter_start.cost >= max_cost)
       => /\ Stopped
          /\ calls = iter_start.calls
          /\ Len(conversation_history) = iter_start.calls
          /\ stopped_reason \in {"max_tokens", "max_cost"}
    /\ stopped_reason = "max_tokens" => max_tokens # 0
    /\ stopped_reason = "max_cost" => max_cost # 0

\* A run ended by the cost limit at the start of its third iteration.
C3_Witness ==
    /\ Returned
    /\ Outcome.stopped_reason = "max_cost"
    /\ Outcome.iterations = 3
    /\ iter_start.cost >= max_cost
    /\ calls = iter_start.calls

\* C4 as claimed: after any iteration k from 1 to max_iterations that left
\* total_tokens >= max_tokens and did not end the run, the next step ends
\* the run with max_tokens and makes no backend call.
C4_TokensStopAfterAnyIteration ==
    [][(/\ pc \in LoopHeads
        /\ iterations >= 1
        /\ iterations <= max_iterations
        /\ total_tokens >= max_tokens)
       => /\ pc' \in EndPoints
          /\ stopped_reason' = "max_tokens"
          /\ calls' = calls]_vars

\* C4 amended: after an iteration k from 1 to max_iterations - 1 that left
\* total_tokens >= max_tokens, max_tokens not zero, and did not end the
\* run, iteration k + 1 starts and ends the run at once with max_tokens
\* and no backend call; after iteration k = max_iterations no iteration
\* starts and the run ends with max_iterations.
C4_TokensStopNextIteration ==
    [][(/\ pc \in LoopHeads
        /\ iterations >= 1
        /\ max_tokens # 0
        /\ total_tokens >= max_tokens)
       => IF iterations < max_iterations
          THEN /\ pc' \in EndPoints
               /\ iterations' = iterations + 1
               /\ stopped_reason' = "max_tokens"
               /\ calls' = calls
               /\ conversation_history' = conversation_history
          ELSE /\ pc' \in EndPoints
               /\ iterations' = iterations
               /\ stopped_reason' = ""
               /\ calls' = calls]_vars

\* A run ended by the token limit at the start of a second or later
\* iteration.
C4_Witness ==
    /\ Returned
    /\ Outcome.stopped_reason = "max_tokens"
    /\ Outcome.iterations >= 2
    /\ Outcome.total_tokens >= max_tokens
    /\ calls = iter_start.calls

BudgetChecked == pc \in {"budget_exceeded", "budget_ok"}

\* C5 as claimed: the budget check answers (true, max_tokens) whenever
\* total_tokens >= max_tokens, otherwise (true, max_cost) whenever
\* total_cost >= max_cost, otherwise (false, no reason), whatever the
\* limits are.
C5_BudgetCheckAnyLimit ==
    BudgetChecked =>
        IF total_tokens >= max_tokens
        THEN pc = "budget_exceeded" /\ stopped_reason = "max_tokens"
        ELSE IF total_cost >= max_cost
        THEN pc = "budget_exceeded" /\ stopped_reason = "max_cost"
        ELSE pc = "budget_ok" /\ stopped_reason = ""

\* C5 amended: the budget check answers (true, max_tokens) whenever
\* max_tokens is not zero and total_tokens >= max_tokens, otherwise (true,
\* max_cost) whenever max_cost is not zero and total_cost >= max_cost,
\* otherwise (false, no reason); a limit of zero is never reported, and
\* with both limits reached the reason is max_tokens.
C5_BudgetCheckSetLimit ==
    BudgetChecked =>
        IF max_tokens # 0 /\ total_tokens >= max_tokens
        THEN pc = "budget_exceeded" /\ stopped_reason = "max_tokens"
        ELSE IF max_cost # 0 /\ total_cost >= max_cost
        THEN pc = "budget_exceeded" /\ stopped_reason = "max_cost"
        ELSE pc = "budget_ok" /\ stopped_reason = ""

\* Both limits reached exactly, and max_tokens reported.
C5_Witness ==
    /\ BudgetChecked
    /\ max_tokens # 0
    /\ max_cost # 0
    /\ total_tokens = max_tokens
    /\ total_cost = max_cost
    /\ stopped_reason = "max_tokens"

\* The latest turn is a manager's turn made inside the loop.
LastTurn == conversation_history[Len(conversation_history)]
LoopReviewJustMade ==
    /\ iter_start.n > 0
    /\ calls > iter_start.calls
    /\ LastTurn.role = "manager"

\* C6: once a manager response made inside the loop carries the approval
\* marker, no further backend call is made and the run returns success,
\* stop reason approved and phase approved, also in the last iteration
\* max_iterations allows.
C6_ApprovalEndsRun ==
    (LoopReviewJustMade /\ LastTurn.content = Approval)
    => /\ Stopped
       /\ stopped_reason = "approved"
       /\ current_phase = APPROVED
       /\ Returned => /\ Outcome.success
                      /\ Outcome.stopped_reason = "approved"
                      /\ Outcome.phase = APPROVED
                      /\ Outcome.conversation_history = conversation_history

\* An approval in the last iteration the ceiling allows.
C6_Witness ==
    /\ Returned
    /\ LoopReviewJustMade
    /\ LastTurn.content = Approval
    /\ Outcome.iterations = max_iterations
    /\ max_iterations = MaxIter
    /\ Outcome.success

\* The developer turns of the transcript, in order.
RECURSIVE DeveloperTexts(_)
DeveloperTexts(h) ==
    IF h = <<>> THEN <<>>
    ELSE IF Head(h).role = "developer"
    THEN <<Head(h).content>> \o DeveloperTexts(Tail(h))
    ELSE DeveloperTexts(Tail(h))

\* The artifact submissions of the run: every developer turn but, in
\* development, the plan.
Submissions ==
    IF task = "code_development"
    THEN (IF Len(conversation_history) >= 1
          THEN DeveloperTexts(Tail(conversation_history)) ELSE <<>>)
    ELSE DeveloperTexts(conversation_history)

\* The submissions the progress detector is given: in code review the
\* first revision, made before the loop, is not among them.
CheckedSubmissions ==
    IF task = "code_review"
    THEN (IF Submissions = <<>> THEN <<>> ELSE Tail(Submissions))
    ELSE Submissions

AllNear(subs) ==
    \A i \in 2..Len(subs) :
        SimilarityAtLeast(subs[i - 1], subs[i], early_stop_similarity)

\* C7 as claimed: with max_no_progress = 2, the third of three successive
\* near-identical submissions, counted from the first artifact submission
\* of the run, ends the run with no_progress.
C7_ThirdSubmissionStops ==
    (/\ max_no_progress = 2
     /\ Len(Submissions) = 3
     /\ AllNear(Submissions))
    => Stopped /\ stopped_reason = "no_progress"

\* C7 amended: with max_no_progress = 2, the third of three successive
\* near-identical submissions ends the run with no_progress, and no earlier
\* one does, counted from the first submission given to the progress
\* detector: the first submission of the run in development (not the
\* plan), planning and documentation, but in code review the first revision
\* made inside the loop, which is the second submission of the run.
C7_ThirdCheckedSubmissionStops ==
    /\ (/\ max_no_progress = 2
        /\ Len(CheckedSubmissions) = 3
        /\ AllNear(CheckedSubmissions))
       => Stopped /\ stopped_reason = "no_progress"
    /\ (/\ max_no_progress = 2
        /\ Len(CheckedSubmissions) < 3)
       => stopped_reason # "no_progress"

\* A code review stopped for no progress by its fourth submission.
C7_Witness ==
    /\ Returned
    /\ task = "code_review"
    /\ max_no_progress = 2
    /\ Len(Submissions) = 4
    /\ AllNear(Submissions)
    /\ Outcome.stopped_reason = "no_progress"

\* C8: a run that ends with no_progress returns as final_output the
\* content of the last developer turn of its transcript.
C8_FinalOutputIsLatest ==
    (Returned /\ Outcome.stopped_reason = "no_progress")
    => Outcome.final_output
         = DeveloperTexts(Outcome.conversation_history)[
               Len(DeveloperTexts(Outcome.conversation_history))]

\* checkpoint_interval is set and divides the iteration number
IntervalDivides(n) ==
    IF checkpoint_interval = 0 THEN FALSE
    ELSE n % checkpoint_interval = 0

\* C9: in a loop iteration the continue/stop decision is asked for exactly
\* when checkpoint_interval is set, divides the iteration number and the
\* budget check of the iteration did not end the run; it is asked after the
\* budget check and before any backend call of the iteration, and the
\* answer stop ends the run with user_stopped and no backend call.
C9_CheckpointGate ==
    [][/\ (pc \in LoopHeads /\ iterations' = iterations + 1)
          => (pc' \in AskPoints
                <=> (IntervalDivides(iterations') /\ pc' \notin EndPoints))
       /\ (pc' \in AskPoints /\ pc \notin AskPoints)
          => /\ pc \in LoopHeads
             /\ iterations' = iterations + 1
             /\ ~CheckBudgetLimits(total_tokens, total_cost).exceeded
             /\ calls' = iter_start'.calls
       /\ pc \in AskPoints
          => /\ calls' = calls
             /\ conversation_history' = conversation_history
             /\ \/ pc' \in CallPoints /\ stopped_reason' = ""
                \/ pc' \in EndPoints /\ stopped_reason' = "user_stopped"
       /\ (stopped_reason' = "user_stopped" /\ stopped_reason = "")
          => pc \in AskPoints /\ calls = iter_start.calls]_vars

\* A run stopped by the user at the checkpoint of its second iteration,
\* after one full iteration and no call in the second.
C9_Witness ==
    /\ Returned
    /\ Outcome.stopped_reason = "user_stopped"
    /\ checkpoint_interval = 2
    /\ Outcome.iterations = 2
    /\ calls = iter_start.calls
    /\ calls >= 2

\* C10 as claimed: a run that returns max_iterations returns
\* iterations = max_iterations.
C10_IterationsEqualCeiling ==
    (Returned /\ Outcome.stopped_reason = "max_iterations")
    => Outcome.iterations = max_iterations

\* C10 amended: a run returns max_iterations only when its loop ended on
\* the loop test with no stop reason set, and then iterations =
\* max_iterations, except that in code review, whose counter starts at 1,
\* iterations = max(1, max_iterations), which is 1 for max_iterations = 0.
C10_IterationsAtCeiling ==
    /\ (Stopped /\ stopped_reason \in {"", "max_iterations"})
       => /\ ~LoopCond(iterations)
          /\ iterations = IF task = "code_review"
                          THEN Max(1, max_iterations) ELSE max_iterations
          /\ current_phase # APPROVED
    /\ (Returned /\ Outcome.stopped_reason = "max_iterations")
       => Outcome.iterations = IF task = "code_review"
                               THEN Max(1, max_iterations)
                               ELSE max_iterations

\* A code review with max_iterations = 0: one iteration is reported.
C10_Witness ==
    /\ Returned
    /\ task = "code_review"
    /\ max_iterations = 0
    /\ Outcome.stopped_reason = "max_iterations"
    /\ Outcome.iterations = 1

\* Every text of subs is the same text.
SameText(subs) == \A i \in 1..Len(subs) : subs[i] = subs[1]

\* No manager turn of the transcript carries the approval marker.
NeverApproved ==
    \A i \in 1..Len(conversation_history) :
        conversation_history[i].role = "manager"
            => ~CheckApproval(conversation_history[i].content)

\* C11: a planning run with 1 <= max_iterations <= max_no_progress whose
\* developer answered the same non-empty text T every time, whose manager
\* never approved and which no budget limit or checkpoint stopped, returns
\* iterations = max_iterations, success false, stop reason max_iterations
\* and final_output = T, after max_iterations submissions (with the default
\* max_no_progress = 3 and max_iterations = 3: three iterations).
C11_IdenticalPlansRunToCeiling ==
    (/\ Returned
     /\ task = "project_planning"
     /\ max_iterations >= 1
     /\ max_iterations <= max_no_progress
     /\ SameText(Submissions)
     /\ \A i \in 1..Len(Submissions) : Submissions[i] # <<>>
     /\ NeverApproved
     /\ Outcome.stopped_reason \notin {"max_tokens", "max_cost", "user_stopped"})
    => /\ Len(Submissions) = max_iterations
       /\ Outcome.iterations = max_iterations
       /\ ~Outcome.success
       /\ Outcome.stopped_reason = "max_iterations"
       /\ Outcome.final_output = Submissions[1]
       /\ calls = 2 * max_iterations

\* The scenario itself: max_no_progress = 3, max_iterations = 3, the same
\* plan three times, three rejections.
C11_Witness ==
    /\ Returned
    /\ task = "project_planning"
    /\ max_no_progress = 3
    /\ max_iterations = 3
    /\ Submissions = << <<"a", "b", "c", "d">>, <<"a", "b", "c", "d">>,
                       <<"a", "b", "c", "d">> >>
    /\ NeverApproved
    /\ Outcome.iterations = 3
    /\ Outcome.stopped_reason = "max_iterations"
    /\ Outcome.final_output = <<"a", "b", "c", "d">>

\* The manager responses the run has received so far.
ManagerResponses ==
    Cardinality({ i \in 1..Len(conversation_history) :
                    conversation_history[i].role = "manager" })

\* C12: in a code review, when the manager's j-th response of the run is
\* given inside the loop and carries the approval marker, j >= 2, the run
\* ends there and returns success, stop reason approved and iterations = j
\* (2 for an approval in the second response).
C12_ReviewApprovalIteration ==
    (/\ task = "code_review"
     /\ LoopReviewJustMade
     /\ CheckApproval(LastTurn.content))
    => /\ ManagerResponses >= 2
       /\ Stopped
       /\ stopped_reason = "approved"
       /\ iterations = ManagerResponses
       /\ Returned => /\ Outcome.success
                      /\ Outcome.stopped_reason = "approved"
                      /\ Outcome.iterations = ManagerResponses

\* A code review rejected in the initial review and approved in the
\* manager's second response.
C12_Witness ==
    /\ Returned
    /\ task = "code_review"
    /\ ManagerResponses = 2
    /\ conversation_history[1].content = Rejection
    /\ LastTurn.role = "manager"
    /\ CheckApproval(LastTurn.content)
    /\ Outcome.success
    /\ Outcome.stopped_reason = "approved"
    /\ Outcome.iterations = 2

\* C13: in a code review the initial review and the first revision are
\* made whatever the limits and the checkpoint interval are: the budget
\* check and the checkpoint test are not evaluated before both calls have
\* been made, and the first iteration that evaluates them is numbered 2.
C13_FirstExchangeUnconditional ==
    task = "code_review" =>
        /\ pc \in {"rev_initial", "rev_first"}
             => /\ iter_start.n = 0
                /\ stopped_reason = ""
                /\ calls = IF pc = "rev_initial" THEN 0 ELSE 1
        /\ pc \notin {"rev_initial", "rev_first"}
             => /\ calls >= 2
                /\ conversation_history[1].role = "manager"
                /\ conversation_history[2].role = "developer"
        /\ iter_start.n > 0
             => iter_start.n >= 2 /\ iter_start.calls >= 2
        /\ pc = "rev_checkpoint" => iterations >= 2
        /\ stopped_reason \in {"max_tokens", "max_cost", "user_stopped"}
             => iterations >= 2

\* A code review whose token limit was reached by the first exchange: the
\* first budget check, in iteration 2, ends it after exactly two calls,
\* and the checkpoint due at every iteration was never asked.
C13_Witness ==
    /\ Returned
    /\ task = "code_review"
    /\ checkpoint_interval = 1
    /\ Outcome.stopped_reason = "max_tokens"
    /\ Outcome.iterations = 2
    /\ iter_start.n = 2
    /\ calls = 2

\* The presets as the specification lists them.
ListedPreset(mode) ==
    CASE mode = "economy" -> <<5, 30000, 1 * CostUnit, 3>>
      [] mode = "balanced" -> <<10, 50000, 2 * CostUnit, 5>>
      [] mode = "quality" -> <<15, 100000, 5 * CostUnit, 7>>

Resolved(value, preset) == IF value # <<>> THEN value[1] ELSE preset

\* C14: for every budget mode, each of max_iterations, max_tokens,
\* max_cost and checkpoint_interval of a constructed instance is the value
\* the caller supplied, whatever it is, and the mode's preset (economy
\* 5/30000/1.0/3, balanced 10/50000/2.0/5, quality 15/100000/5.0/7) when
\* the caller supplied none.
C14_ExplicitValueAlwaysWins ==
    pc = "idle" =>
        LET preset == ListedPreset(budget_mode) IN
        /\ max_iterations = Resolved(supplied.max_iterations, preset[1])
        /\ max_tokens = Resolved(supplied.max_tokens, preset[2])
        /\ max_cost = Resolved(supplied.max_cost, preset[3])
        /\ checkpoint_interval
             = Resolved(supplied.checkpoint_interval, preset[4])

\* An instance constructed with max_iterations = 10 in economy mode and
\* left with the economy preset of 5.
C14_Witness ==
    /\ pc = "idle"
    /\ budget_mode = "economy"
    /\ supplied.max_iterations = <<10>>
    /\ max_iterations = 5

Aborted == pc = "raised"

EntryPoints == {"dev_plan", "rev_initial", "plan_loop", "doc_loop"}

\* C15: a backend call that raises ends the run at that call: a step from
\* a call point either completes the call or leaves the method with the
\* exception and changes nothing else; the aborted run has returned no
\* WorkflowResult and written no result file; and nothing more happens in
\* it (no retry, no later call): the instance moves again only when a new
\* run is entered, which starts from zero calls.
C15_ErrorAbortsRun ==
    /\ [](Aborted => (result = <<>> /\ saved = <<>>))
    /\ [][(pc \in CallPoints) =>
            ((calls' = calls + 1 /\ pc' # "raised")
             \/ (/\ pc' = "raised"
                 /\ calls' = calls
                 /\ conversation_history' = conversation_history
                 /\ result' = <<>>
                 /\ saved' = <<>>
                 /\ total_tokens' = total_tokens
                 /\ total_cost' = total_cost
                 /\ no_progress_count' = no_progress_count))]_vars
    /\ [][Aborted =>
            (/\ pc' \in EntryPoints
             /\ calls' = 0
             /\ conversation_history' = <<>>
             /\ result' = <<>>)]_vars

\* A development run aborted by its fourth call, the manager's review in
\* the first iteration: three turns recorded, nothing returned or written.
C15_Witness ==
    /\ Aborted
    /\ task = "code_development"
    /\ iterations = 1
    /\ calls = 3
    /\ Len(conversation_history) = 3
    /\ result = <<>>
    /\ saved = <<>>

StopReasons ==
    {"approved", "max_iterations", "max_tokens", "max_cost", "no_progress",
     "user_stopped"}

\* C16: a run that no backend error aborts returns exactly one
\* WorkflowResult, whose stop reason is one of approved, max_iterations,
\* max_tokens, max_cost, no_progress, user_stopped and never empty: a
\* result exists exactly when the method has returned, it is set once, at
\* the return, and every stop (a budget limit, no progress, the user's
\* stop, the loop test, an approval) leads to the return and not to an
\* exception.
C16_OneOutcomeWithReason ==
    /\ [](Returned <=> result # <<>>)
    /\ [](Returned => (/\ Len(result) = 1
                       /\ Outcome.stopped_reason \in StopReasons
                       /\ Outcome.stopped_reason = stopped_reason))
    /\ [](stopped_reason # "" => (Stopped /\ stopped_reason \in StopReasons))
    /\ [][(result' # result) =>
            ((result = <<>> /\ pc \in EndPoints /\ pc' = "done")
             \/ (pc = "done" /\ result' = <<>> /\ pc' \in EntryPoints))]_vars
    /\ [][(pc \in EndPoints) => (pc' = "done" /\ result' # <<>>)]_vars

\* A documentation run ended by the cost limit returns a result like any
\* other.
C16_Witness ==
    /\ Returned
    /\ task = "documentation"
    /\ Len(result) = 1
    /\ Outcome.stopped_reason = "max_cost"
    /\ ~Outcome.success
    /\ calls >= 2

IsPrefix(a, b) ==
    /\ Len(a) <= Len(b)
    /\ \A i \in 1..Len(a) : a[i] = b[i]

\* C17: within a run every completed backend call appends exactly one
\* turn to the transcript and nothing else touches it: the transcript is
\* always as long as the number of completed calls of the run, and a step
\* either leaves it alone (no call completed), or completes one call and
\* extends it by one developer or manager turn, keeping the earlier turns
\* as they were, or enters a new run and starts an empty one.
C17_OneTurnPerCall ==
    /\ [](Len(conversation_history) = calls)
    /\ [](Returned => Outcome.conversation_history = conversation_history)
    /\ [][\/ /\ conversation_history' = conversation_history
              /\ calls' = calls
           \/ /\ pc \in CallPoints
              /\ calls' = calls + 1
              /\ Len(conversation_history') = Len(conversation_history) + 1
              /\ IsPrefix(conversation_history, conversation_history')
              /\ conversation_history'[Len(conversation_history')].role
                   \in {"developer", "manager"}
           \/ /\ pc \in {"idle", "done", "raised"}
              /\ pc' \in EntryPoints
              /\ conversation_history' = <<>>
              /\ calls' = 0]_vars

\* A development run that made every call its ceiling allows: as many
\* turns, alternating developer and manager.
C17_Witness ==
    /\ Returned
    /\ task = "code_development"
    /\ calls = 2 * MaxIter + 2
    /\ Len(Outcome.conversation_history) = 2 * MaxIter + 2
    /\ \A i \in 1..(2 * MaxIter + 2) :
         Outcome.conversation_history[i].role
           = IF i % 2 = 1 THEN "developer" ELSE "manager"

\* The prompt the backend call at the current point sends.
PromptAt ==
    CASE pc = "dev_plan" -> DEVELOPER_PLAN_PROMPT(requirements)
      [] pc = "dev_plan_review" ->
           MANAGER_PLANNING_PROMPT(requirements, previous_submission)
      [] pc = "dev_impl" ->
           IF iterations = 1
           THEN DEVELOPER_IMPLEMENT_PROMPT(requirements, manager_feedback)
           ELSE DEVELOPER_REVISE_PROMPT(requirements, previous_submission,
                                        manager_feedback)
      [] pc = "dev_review" ->
           MANAGER_REVIEW_PROMPT(Lit(14), requirements, previous_submission)
      [] pc = "rev_initial" -> ReviewRequest(requirements, context)
      [] pc = "rev_first" -> ReviewDevPrompt(manager_feedback, requirements)
      [] pc = "rev_rereview" -> ReReviewPrompt(previous_submission)
      [] pc = "rev_revise" ->
           ReviewRevisePrompt(manager_feedback, previous_submission)
      [] pc = "plan_draft" ->
           IF iterations = 1 THEN DEVELOPER_PLAN_PROMPT(requirements)
           ELSE PlanRevisePrompt(manager_feedback, previous_submission)
      [] pc = "plan_review" ->
           MANAGER_PLANNING_PROMPT(requirements, previous_submission)
      [] pc = "doc_write" ->
           IF iterations = 1 THEN DocRequest(requirements, context)
           ELSE DocRevisePrompt(manager_feedback, previous_submission)
      [] pc = "doc_review" ->
           DocReviewPrompt(requirements, previous_submission)

\* C18: total_tokens and total_cost are zero when a run starts and never
\* decrease in it; a step that completes a backend call adds to
\* total_tokens exactly floor(len(prompt + response) / 4) for the prompt
\* sent and the response received, no other step changes the totals, and
\* the WorkflowResult carries the totals so reached: its total_tokens is
\* the sum of the per-call values over the calls of the run.
C18_TokensAccumulatePerCall ==
    /\ [](calls = 0 => (total_tokens = 0 /\ total_cost = 0))
    /\ [](Returned => (/\ Outcome.total_tokens = total_tokens
                       /\ Outcome.total_cost = total_cost))
    /\ [][\/ /\ pc \in {"idle", "done", "raised"}
              /\ pc' \in EntryPoints
              /\ total_tokens' = 0
              /\ total_cost' = 0
           \/ /\ pc \in CallPoints
              /\ calls' = calls + 1
              /\ total_tokens'
                   = total_tokens
                     + (Len(PromptAt)
                        + Len(conversation_history'[
                                  Len(conversation_history')].content)) \div 4
              /\ total_cost' >= total_cost
           \/ /\ calls' = calls
              /\ total_tokens' = total_tokens
              /\ total_cost' = total_cost]_vars

\* A planning run of two iterations: its four calls count 5, 5, 12 and 5
\* tokens (20, 22, 50 and 22 characters), 27 in all, where the 114
\* characters taken together would count 28.
C18_Witness ==
    /\ Returned
    /\ task = "project_planning"
    /\ calls = 4
    /\ \A i \in 1..4 :
         conversation_history[i].content
           = IF i % 2 = 1 THEN <<"a", "b", "c", "d">> ELSE Rejection
    /\ Outcome.total_tokens = 27

\* A run method is entered.
Entering == pc \in {"idle", "done", "raised"} /\ pc' \in EntryPoints

\* The state a run method entered on a newly constructed instance starts
\* from, for the method and the arguments of the call being entered.
StartsAsOnFreshInstance ==
    /\ conversation_history' = <<>>
    /\ total_tokens' = 0
    /\ total_cost' = 0
    /\ no_progress_count' = 0
    /\ previous_submission_text' = <<>>
    /\ stopped_reason' = ""
    /\ iterations' = 0
    /\ previous_submission' = <<>>
    /\ manager_feedback' = Unbound
    /\ result' = <<>>
    /\ calls' = 0
    /\ saved' = <<>>
    /\ iter_start' = NoIteration
    /\ current_phase' = CASE task' = "code_development" -> PLANNING
                           [] task' = "code_review" -> REVIEW
                           [] task' = "project_planning" -> PLANNING
                           [] task' = "documentation" -> IMPLEMENTATION
    /\ pc' = CASE task' = "code_development" -> "dev_plan"
                [] task' = "code_review" -> "rev_initial"
                [] task' = "project_planning" -> "plan_loop"
                [] task' = "documentation" -> "doc_loop"
    /\ UNCHANGED cfgVars

\* C19: whatever runs an instance has made before, a run entered on it
\* starts from the state it starts from on a newly constructed instance
\* with the same configuration, and so, with the same answers of the
\* backends and the checkpoint prompt, takes the same steps and returns the
\* same WorkflowResult; nothing of an earlier run is left in a later one:
\* the transcript holds the calls of this run only, the streak counts
\* repetitions among this run's checked submissions only, and the
\* detector's previous submission is this run's latest checked one.
C19_RunsIndependentOfEarlierRuns ==
    /\ [][Entering => StartsAsOnFreshInstance]_vars
    /\ [](Len(conversation_history) = calls)
    /\ [](no_progress_count <= Max(0, Len(CheckedSubmissions) - 1))
    /\ [](previous_submission_text
            = IF CheckedSubmissions = <<>> THEN <<>>
              ELSE <<CheckedSubmissions[Len(CheckedSubmissions)]>>)
    /\ [](calls = 0 => (total_tokens = 0 /\ total_cost = 0))

\* The second run on an instance, a planning run of two iterations with
\* the same plan twice: it is not stopped for no progress by what the
\* first run left, and counts the 27 tokens of its own four calls.
C19_Witness ==
    /\ runs = <<2>>
    /\ Returned
    /\ task = "project_planning"
    /\ max_no_progress = 2
    /\ calls = 4
    /\ \A i \in 1..4 :
         conversation_history[i].content
           = IF i % 2 = 1 THEN <<"a", "b", "c", "d">> ELSE Rejection
    /\ Outcome.stopped_reason = "max_iterations"
    /\ Outcome.iterations = 2
    /\ Outcome.total_tokens = 27
    /\ Len(Outcome.conversation_history) = 4

\* C20: a development run that returns a WorkflowResult has handed its
\* transcript to _save_result exactly once, whatever its stop reason, at
\* the return after the loop, together with the requirements and the final
\* output it returns; a development run that has not returned has written
\* nothing; a code review, planning or documentation run never writes.
C20_SavedOncePerDevelopmentRun ==
    /\ [](task # "code_development" => saved = <<>>)
    /\ [](task = "code_development"
            => Len(saved) = IF Returned THEN 1 ELSE 0)
    /\ []((Returned /\ task = "code_development")
            => (/\ saved[1].requirements = requirements
                /\ saved[1].output = Outcome.final_output
                /\ Len(saved[1].sections)
                     = Len(Outcome.conversation_history)
                /\ \A i \in 1..Len(saved[1].sections) :
                     saved[1].sections[i].content
                       = Outcome.conversation_history[i].content))
    /\ [][(saved' # saved) =>
            ((pc = "dev_end" /\ pc' = "done" /\ saved = <<>>)
             \/ (Entering /\ saved' = <<>>))]_vars

\* A development run stopped for no progress, not approved, and its
\* result file with the two plan turns and the three submissions.
C20_Witness ==
    /\ Returned
    /\ task = "code_development"
    /\ Outcome.stopped_reason = "no_progress"
    /\ ~Outcome.success
    /\ Len(saved) = 1
    /\ Len(saved[1].sections) = 7
    /\ saved[1].sections[7].label = "DEVELOPER"

\* ------------------------------------------------------ the result file

\* The result files of development runs of 2..MaxTurns turns: the developer
\* and the manager take turns, the first two turns are the plan and its
\* review, and each turn's content is a response of a backend.
MaxTurns == 4

HeadingText ==
    <<"#", "#", "#", " ", "M", "A", "N", "A", "G", "E", "R", " ", "(", "r",
      "e", "v", "i", "e", "w", ")">>

SaveContents ==
    { <<"a">>, <<"a", NL, "b">>, <<"-", "-", "-">>,
      <<"a", NL, NL>> \o HeadingText \o <<NL, NL, "b">> }

TurnAt(i, content) ==
    [role |-> IF i % 2 = 1 THEN "developer" ELSE "manager",
     content |-> content,
     phase |-> IF i <= 2 THEN PLANNING
               ELSE IF i % 2 = 1 THEN IMPLEMENTATION ELSE REVIEW]

SaveInit ==
    /\ budget_mode = "balanced"
    /\ supplied = [max_iterations |-> <<MaxIter>>, max_tokens |-> <<>>,
                    max_cost |-> <<>>, checkpoint_interval |-> <<>>]
    /\ max_iterations = MaxIter
    /\ max_tokens = <<>>
    /\ max_cost = <<>>
    /\ checkpoint_interval = <<>>
    /\ max_no_progress = 3
    /\ early_stop_similarity \in SimilarityChoices
    /\ manager = ManagerClient
    /\ developer = DeveloperClient
    /\ \E n \in 2..MaxTurns : \E cs \in [1..n -> SaveContents] :
         /\ conversation_history = [i \in 1..n |-> TurnAt(i, cs[i])]
         /\ calls = n
         /\ iterations = n \div 2
         /\ previous_submission =
              cs[IF n = 2 THEN 1 ELSE IF n % 2 = 1 THEN n ELSE n - 1]
         /\ current_phase = IF n = 2 THEN IMPLEMENTATION
                            ELSE IF n % 2 = 1 THEN IMPLEMENTATION ELSE REVIEW
         /\ manager_feedback = IF n % 2 = 0 THEN cs[n] ELSE cs[n - 1]
    /\ total_tokens = 0
    /\ total_cost = 0
    /\ no_progress_count = 0
    /\ previous_submission_text = <<>>
    /\ pc = "dev_end"
    /\ runs = <<>>
    /\ task = "code_development"
    /\ requirements \in SeedTexts
    /\ context = <<>>
    /\ stopped_reason = ""
    /\ result = <<>>
    /\ saved = <<>>
    /\ iter_start = NoIteration

SaveSpec == SaveInit /\ [][DevFinish]_vars

\* Reading the file back: its lines, the lines that are turn headings, and
\* for each heading the lines up to the next heading.
RECURSIVE Ascending(_)
Ascending(S) ==
    IF S = {} THEN <<>>
    ELSE LET m == CHOOSE x \in S : \A y \in S : x <= y
         IN <<m>> \o Ascending(S \ {m})

Lines(text) ==
    LET nl == Ascending({i \in 1..Len(text) : text[i] = NL})
    IN [k \in 1..Len(nl) + 1 |->
          SubSeq(text, IF k = 1 THEN 1 ELSE nl[k - 1] + 1,
                 IF k <= Len(nl) THEN nl[k] - 1 ELSE Len(text))]

Label(role) ==
    CASE role = "manager" -> <<"M", "A", "N", "A", "G", "E", "R">>
      [] role = "developer" ->
           <<"D", "E", "V", "E", "L", "O", "P", "E", "R">>

Heading(role, phase) ==
    <<"#", "#", "#", " ">> \o Label(role) \o <<" ", "(">>
    \o PhaseChars(phase) \o <<")">>

IsTurnHeading(line) ==
    \E role \in {"manager", "developer"},
       phase \in {PLANNING, IMPLEMENTATION, REVIEW, APPROVED} :
        line = Heading(role, phase)

TurnSections(file) ==
    LET ls == Lines(file)
        at == Ascending({i \in 1..Len(ls) : IsTurnHeading(ls[i])})
    IN [k \in 1..Len(at) |->
          [heading |-> ls[at[k]],
           body |-> SubSeq(ls, at[k] + 1,
                           IF k < Len(at) THEN at[k + 1] - 1 ELSE Len(ls))]]

\* The lines a turn's content takes between its heading and the next one:
\* a blank line, the content, a blank line, the rule, a blank line (and the
\* empty end of the file after the last turn).
BodyOf(content, last) ==
    << <<>> >> \o Lines(content) \o << <<>>, <<"-", "-", "-">>, <<>> >>
    \o (IF last THEN << <<>> >> ELSE <<>>)

RoundTrip(file, history) ==
    LET secs == TurnSections(file) IN
    /\ Len(secs) = Len(history)
    /\ \A i \in 1..Len(history) :
         /\ secs[i].heading = Heading(history[i].role, history[i].phase)
         /\ secs[i].body = BodyOf(history[i].content, i = Len(history))

DevelopmentSaved ==
    /\ pc = "done"
    /\ task = "code_development"
    /\ saved # <<>>

\* C21: the file of a finished development run with N turns reads back as
\* exactly N turn sections, the i-th headed by the upper-cased role and the
\* phase of the i-th turn and holding its content, in the order of the
\* turns.
C21_FileReadsBackAsTheTurns ==
    DevelopmentSaved =>
        RoundTrip(saved[Len(saved)].file, result[1].conversation_history)

\* The same for the runs none of whose turns holds a heading line.
NoHeadingInContents ==
    \A i \in 1..Len(conversation_history) :
        \A j \in 1..Len(Lines(conversation_history[i].content)) :
            ~IsTurnHeading(Lines(conversation_history[i].content)[j])

C21_PlainContentsReadBack ==
    (DevelopmentSaved /\ NoHeadingInContents) =>
        RoundTrip(saved[Len(saved)].file, result[1].conversation_history)

\* A two-turn run whose file holds three turn sections.
C21_Witness ==
    /\ DevelopmentSaved
    /\ Len(result[1].conversation_history) = 2
    /\ Len(TurnSections(saved[Len(saved)].file)) = 3

C21_PlainWitness ==
    /\ DevelopmentSaved
    /\ NoHeadingInContents
    /\ Len(result[1].conversation_history) = MaxTurns
    /\ \E i \in 1..MaxTurns :
         Len(Lines(result[1].conversation_history[i].content)) = 2
    /\ Len(TurnSections(saved[Len(saved)].file)) = MaxTurns

\* ------------------------------------------------- the progress detector

\* The progress check on its own: one run's detector, freshly reset, asked
\* about up to MaxChecks submissions in a row, until it answers False (the
\* loops break on that answer).
MaxChecks == 4

ProgressThresholds == {0, 75, 100}

ProgressInit ==
    /\ budget_mode = "balanced"
    /\ supplied = [max_iterations |-> <<MaxChecks>>, max_tokens |-> <<>>,
                    max_cost |-> <<>>, checkpoint_interval |-> <<>>]
    /\ max_iterations = MaxChecks
    /\ max_tokens = <<>>
    /\ max_cost = <<>>
    /\ checkpoint_interval = <<>>
    /\ max_no_progress \in NoProgressChoices
    /\ early_stop_similarity \in ProgressThresholds
    /\ manager = ManagerClient
    /\ developer = DeveloperClient
    /\ conversation_history = <<>>
    /\ total_tokens = 0
    /\ total_cost = 0
    /\ no_progress_count = 0
    /\ previous_submission_text = <<>>
    /\ pc = "progress"
    /\ runs = <<>>
    /\ task = ""
    /\ requirements = <<>>
    /\ context = <<>>
    /\ current_phase = ""
    /\ stopped_reason = ""
    /\ iterations = 0
    /\ previous_submission = <<>>
    /\ manager_feedback = Unbound
    /\ result = <<>>
    /\ calls = 0
    /\ saved = <<>>
    /\ iter_start = NoIteration

\* if not self._check_progress(submission): break, once per iteration
ProgressCheck ==
    /\ pc \in {"progress", "progress_ok"}
    /\ iterations < MaxChecks
    /\ \E current_submission \in ProducerTexts :
         LET r == CheckProgress(current_submission) IN
         /\ no_progress_count' = r.count
         /\ previous_submission_text' = r.prev
         /\ pc' = IF r.ok THEN "progress_ok" ELSE "progress_stop"
    /\ iterations' = iterations + 1
    /\ UNCHANGED <<cfgVars, conversation_history, usageVars, seedVars,
                   current_phase, stopped_reason, previous_submission,
                   manager_feedback, result, calls, saved, iter_start>>

ProgressSpec == ProgressInit /\ [][ProgressCheck]_vars

\* C22: the first progress check of a run answers True, stores the
\* submission and leaves the streak at 0; every later check adds one to the
\* streak when the similarity of the stored and the current submission
\* reaches early_stop_similarity and otherwise sets it to 0, stores the
\* current submission, and answers exactly (streak < max_no_progress).
C22_CheckProgressContract ==
    /\ [](previous_submission_text = <<>> => no_progress_count = 0)
    /\ [][(iterations' = iterations + 1) =>
            /\ previous_submission_text' # <<>>
            /\ IF previous_submission_text = <<>>
               THEN /\ pc' = "progress_ok"
                    /\ no_progress_count' = 0
               ELSE /\ no_progress_count' =
                         IF SimilarityAtLeast(previous_submission_text[1],
                                              previous_submission_text'[1],
                                              early_stop_similarity)
                         THEN no_progress_count + 1 ELSE 0
                    /\ (pc' = "progress_ok") <=>
                           (no_progress_count' < max_no_progress)
                    /\ (pc' = "progress_stop") <=>
                           (no_progress_count' >= max_no_progress)]_vars

\* A streak that was reset and then reached max_no_progress = 2 at the
\* last check.
C22_Witness ==
    /\ pc = "progress_stop"
    /\ iterations = MaxChecks
    /\ max_no_progress = 2
    /\ no_progress_count = 2
    /\ early_stop_similarity = 75

\* ------------------------------------------------- the approval detector

\* The approval check on its own, applied to one manager response: an
\* optional lead, an optional opening bracket, a spelling of the word, an
\* optional closing bracket and an optional tail.
ApprovalWords ==
    { <<>>,
      <<"a", "p", "p", "r", "o", "v", "e", "d">>,
      <<"A", "P", "P", "R", "O", "V", "E", "D">>,
      <<"A", "p", "p", "r", "o", "v", "e", "d">>,
      <<"a", "p", "p", "r", "o", "v", "e">> }

ApprovalTexts ==
    { lead \o open \o word \o close \o tail :
        lead \in {<<>>, <<"o", "k", " ">>}, open \in {<<>>, <<"[">>},
        word \in ApprovalWords, close \in {<<>>, <<"]">>},
        tail \in {<<>>, <<"!">>} }

ApprovalInit ==
    /\ budget_mode = "balanced"
    /\ supplied = [max_iterations |-> <<1>>, max_tokens |-> <<>>,
                    max_cost |-> <<>>, checkpoint_interval |-> <<>>]
    /\ max_iterations = 1
    /\ max_tokens = <<>>
    /\ max_cost = <<>>
    /\ checkpoint_interval = <<>>
    /\ max_no_progress = 3
    /\ early_stop_similarity \in SimilarityChoices
    /\ manager = ManagerClient
    /\ developer = DeveloperClient
    /\ conversation_history = <<>>
    /\ total_tokens = 0
    /\ total_cost = 0
    /\ no_progress_count = 0
    /\ previous_submission_text = <<>>
    /\ pc = "approval"
    /\ runs = <<>>
    /\ task = ""
    /\ requirements = <<>>
    /\ context = <<>>
    /\ current_phase = REVIEW
    /\ stopped_reason = ""
    /\ iterations = 1
    /\ previous_submission = <<>>
    /\ manager_feedback \in ApprovalTexts
    /\ result = <<>>
    /\ calls = 0
    /\ saved = <<>>
    /\ iter_start = NoIteration

\* if self._check_approval(manager_feedback): ...
ApprovalCheck ==
    /\ pc = "approval"
    /\ pc' = IF CheckApproval(manager_feedback)
             THEN "approval_yes" ELSE "approval_no"
    /\ UNCHANGED <<cfgVars, conversation_history, usageVars, progressVars,
                   seedVars, current_phase, stopped_reason, iterations,
                   previous_submission, manager_feedback, result, calls,
                   saved, iter_start>>

ApprovalSpec == ApprovalInit /\ [][ApprovalCheck]_vars

\* The bracketed token, each letter in either case.
TokenLetters ==
    << {"["}, {"a", "A"}, {"p", "P"}, {"p", "P"}, {"r", "R"}, {"o", "O"},
       {"v", "V"}, {"e", "E"}, {"d", "D"}, {"]"} >>

HoldsToken(text) ==
    \E at \in 0..Len(text) :
        /\ at + Len(TokenLetters) <= Len(text)
        /\ \A k \in 1..Len(TokenLetters) : text[at + k] \in TokenLetters[k]

ApprovalChecked == pc \in {"approval_yes", "approval_no"}

\* C23: the approval check answers True exactly for the texts that hold
\* the bracketed token [APPROVED] as a contiguous substring, letters in
\* either case; it answers False for the word without brackets and for the
\* empty text.
C23_ApprovedIffBracketedToken ==
    ApprovalChecked =>
        /\ (pc = "approval_yes") <=> HoldsToken(manager_feedback)
        /\ manager_feedback = <<>> => pc = "approval_no"
        /\ manager_feedback \in ApprovalWords => pc = "approval_no"

\* A response with the token in mixed case, inside other text, approved.
C23_Witness ==
    /\ pc = "approval_yes"
    /\ manager_feedback =
         <<"o", "k", " ", "[", "A", "p", "p", "r", "o", "v", "e", "d", "]",
           "!">>

\* ----------------------------------------- planning and documentation

TopChecked == {"project_planning", "documentation"}
ProducerPoints == {"plan_draft", "doc_write"}

LimitReached(tokens, cost) ==
    \/ max_tokens # 0 /\ tokens >= max_tokens
    \/ max_cost # 0 /\ cost >= max_cost

GateDue(n) == checkpoint_interval # 0 /\ n % checkpoint_interval = 0

\* C24: in planning and documentation runs the budget check and the
\* checkpoint are passed at the top of every iteration, the first included,
\* before the producer is called: the producer is called only in an
\* iteration that started within its limits and, when a checkpoint was due,
\* after the user's answer; the user is asked before any call of the
\* iteration; and a stop at the checkpoint of iteration 1 ends the run with
\* user_stopped, no backend call, an empty transcript and an empty final
\* output.
C24_ChecksBeforeFirstProducerCall ==
    /\ []((task \in TopChecked /\ pc \in ProducerPoints) =>
            /\ iterations >= 1
            /\ iter_start.n = iterations
            /\ calls = iter_start.calls
            /\ ~LimitReached(iter_start.tokens, iter_start.cost))
    /\ []((task \in TopChecked /\ pc \in AskPoints) =>
            /\ iter_start.n = iterations
            /\ calls = iter_start.calls
            /\ GateDue(iterations)
            /\ ~LimitReached(iter_start.tokens, iter_start.cost))
    /\ []((/\ Returned
           /\ task \in TopChecked
           /\ Outcome.stopped_reason = "user_stopped"
           /\ Outcome.iterations = 1) =>
            /\ checkpoint_interval = 1
            /\ calls = 0
            /\ Outcome.conversation_history = <<>>
            /\ Outcome.final_output = <<>>
            /\ Outcome.total_tokens = 0)
    /\ [][(task \in TopChecked /\ pc \in LoopHeads
           /\ iterations' = iterations + 1) =>
            /\ calls' = calls
            /\ LimitReached(total_tokens, total_cost) =>
                 pc' \in EndPoints
                   /\ stopped_reason' \in {"max_tokens", "max_cost"}
            /\ (~LimitReached(total_tokens, total_cost)
                  /\ GateDue(iterations')) => pc' \in AskPoints
            /\ (~LimitReached(total_tokens, total_cost)
                  /\ ~GateDue(iterations')) => pc' \in ProducerPoints]_vars
    /\ [][(task \in TopChecked /\ pc \in AskPoints) =>
            /\ calls' = calls
            /\ conversation_history' = conversation_history
            /\ \/ pc' \in ProducerPoints /\ stopped_reason' = stopped_reason
               \/ pc' \in EndPoints /\ stopped_reason' = "user_stopped"]_vars

\* A documentation run stopped by the user at the checkpoint of its first
\* iteration.
C24_Witness ==
    /\ Returned
    /\ task = "documentation"
    /\ checkpoint_interval = 1
    /\ Outcome.stopped_reason = "user_stopped"
    /\ Outcome.iterations = 1
    /\ calls = 0
    /\ Outcome.conversation_history = <<>>

\* ------------------------------------------------------------ transcripts

Producer == "developer"
Reviewer == "manager"

FirstSpeaker ==
    IF task = "code_review" THEN Reviewer ELSE Producer

\* C25: in every run of every kind the roles of consecutive turns of the
\* transcript differ, and the first turn is the developer's in development,
\* planning and documentation runs and the manager's in code-review runs.
C25_SpeakersAlternate ==
    /\ \A i \in 1..Len(conversation_history) :
         conversation_history[i].role \in {Producer, Reviewer}
    /\ \A i \in 1..(Len(conversation_history) - 1) :
         conversation_history[i].role # conversation_history[i + 1].role
    /\ conversation_history # <<>> =>
         conversation_history[1].role = FirstSpeaker
    /\ Returned => Outcome.conversation_history = conversation_history

\* A returned code review of three turns: manager, developer, manager.
C25_Witness ==
    /\ Returned
    /\ task = "code_review"
    /\ Len(Outcome.conversation_history) = 3
    /\ Outcome.conversation_history[1].role = "manager"
    /\ Outcome.conversation_history[2].role = "developer"
    /\ Outcome.conversation_history[3].role = "manager"

\* C26: in the result of every run the three signs of approval agree:
\* success holds exactly when the stop reason is approved and exactly when
\* the final phase is APPROVED; with any other stop reason success is false
\* and the phase is not APPROVED.
C26_ApprovalIndicatorsAgree ==
    Returned =>
        /\ Outcome.success <=> Outcome.stopped_reason = "approved"
        /\ Outcome.success <=> Outcome.phase = APPROVED
        /\ Outcome.stopped_reason \in (StopReasons \ {"approved"}) =>
             ~Outcome.success /\ Outcome.phase # APPROVED
        /\ Outcome.stopped_reason \in StopReasons

\* An approved planning run.
C26_Witness ==
    /\ Returned
    /\ task = "project_planning"
    /\ Outcome.success
    /\ Outcome.stopped_reason = "approved"
    /\ Outcome.phase = APPROVED
    /\ Outcome.iterations = 2

\* --------------------------------------------- reviews before the loop

BeforeLoopReviews == {"rev_initial", "dev_plan_review"}

\* C27: a manager text given before the loop is never tested for approval.
\* Whatever the initial review of a code review or the plan review of a
\* development run says, the run goes on to the developer's next call with
\* no stop reason and its phase not APPROVED; a finished code review whose
\* initial review carried the marker still called the developer; and no
\* code review returns success with iterations = 1.
C27_ReviewsBeforeLoopNotTested ==
    /\ [][(pc \in BeforeLoopReviews /\ calls' = calls + 1) =>
            /\ conversation_history'[calls'].role = "manager"
            /\ stopped_reason' = ""
            /\ current_phase' # APPROVED
            /\ pc' = IF pc = "rev_initial" THEN "rev_first" ELSE "dev_loop"]_vars
    /\ []((Returned /\ task = "code_review") =>
            /\ Len(Outcome.conversation_history) >= 2
            /\ Outcome.conversation_history[2].role = "developer"
            /\ Outcome.success => Outcome.iterations >= 2
            /\ Outcome.iterations = 1 => ~Outcome.success)
    /\ []((Returned /\ task = "code_development" /\ Outcome.success) =>
            /\ Len(Outcome.conversation_history) >= 4
            /\ CheckApproval(LastTurn.content))

\* A code review whose initial review carried the marker and which went on
\* and ended unapproved.
C27_Witness ==
    /\ Returned
    /\ task = "code_review"
    /\ CheckApproval(Outcome.conversation_history[1].content)
    /\ Len(Outcome.conversation_history) >= 3
    /\ ~Outcome.success
    /\ Outcome.stopped_reason = "max_iterations"

\* A development run whose plan review carried the marker and which went
\* on to the implementation.
C27_PlanReviewWitness ==
    /\ Returned
    /\ task = "code_development"
    /\ CheckApproval(Outcome.conversation_history[2].content)
    /\ Len(Outcome.conversation_history) >= 4
    /\ ~Outcome.success

\* ------------------------------------------------------ no_progress stops

Near(a, b) == SimilarityAtLeast(a, b, early_stop_similarity)

\* C28: whatever max_no_progress >= 1 is, a run is stopped with
\* no_progress only when each of the last max_no_progress submissions
\* given to the progress detector was near (similarity >=
\* early_stop_similarity) the submission given just before it, the streak
\* then being max_no_progress; a run none of whose successive submissions
\* are near each other is never stopped with no_progress.
C28_NoProgressNeedsFullStreak ==
    LET subs == CheckedSubmissions
        n == Len(subs)
    IN /\ max_no_progress >= 1
       /\ stopped_reason = "no_progress" =>
            /\ n >= max_no_progress + 1
            /\ \A i \in (n - max_no_progress + 1)..n :
                 Near(subs[i - 1], subs[i])
            /\ no_progress_count = max_no_progress
       /\ (\A i \in 2..n : ~Near(subs[i - 1], subs[i])) =>
            stopped_reason # "no_progress"

\* A run whose first two submissions differed and whose next two, each near
\* its predecessor, stopped it with max_no_progress = 2.
C28_Witness ==
    /\ Returned
    /\ Outcome.stopped_reason = "no_progress"
    /\ max_no_progress = 2
    /\ Len(CheckedSubmissions) = 4
    /\ ~Near(CheckedSubmissions[1], CheckedSubmissions[2])
    /\ Near(CheckedSubmissions[2], CheckedSubmissions[3])
    /\ Near(CheckedSubmissions[3], CheckedSubmissions[4])

\* ------------------------------------------- iterations and transcript

EarlyStops == {"max_tokens", "max_cost", "user_stopped"}

\* The length of the transcript of a run of kind t that returned reason r
\* with n iterations.
TurnsFor(t, r, n) ==
    IF t = "code_review"
    THEN CASE r = "approved" -> 2 * n - 1
           [] r \in {"max_iterations", "no_progress"} -> 2 * n
           [] r \in EarlyStops -> 2 * n - 2
    ELSE (IF t = "code_development" THEN 2 ELSE 0)
         + CASE r \in {"approved", "max_iterations"} -> 2 * n
             [] r = "no_progress" -> 2 * n - 1
             [] r \in EarlyStops -> 2 * (n - 1)

\* C29: iterations counts the loop iterations started, one that is ended
\* at its top before any backend call included (from 0, and from 1 in code
\* review, whose first exchange precedes the loop); and the transcript of
\* a returned run with n iterations has 2n turns after approved or
\* max_iterations, 2n - 1 after no_progress and 2(n - 1) after max_tokens,
\* max_cost or user_stopped in planning and documentation, two more than
\* that in development, and in code review 2n - 1 after approved, 2n after
\* max_iterations or no_progress and 2n - 2 after max_tokens, max_cost or
\* user_stopped.
C29_TranscriptLengthByOutcome ==
    /\ [](Returned =>
            Len(Outcome.conversation_history)
              = TurnsFor(task, Outcome.stopped_reason, Outcome.iterations))
    /\ []((Returned /\ Outcome.stopped_reason \in EarlyStops) =>
            /\ iter_start.n = Outcome.iterations
            /\ calls = iter_start.calls)
    /\ [][/\ (pc \in LoopHeads /\ iterations < max_iterations) =>
               iterations' = iterations + 1
          /\ (pc \in LoopHeads /\ ~(iterations < max_iterations)) =>
               iterations' = iterations /\ pc' \in EndPoints
          /\ (pc \notin LoopHeads /\ iterations' # iterations) =>
               \/ pc = "rev_first" /\ iterations = 0 /\ iterations' = 1
               \/ pc' \in EntryPoints /\ iterations' = 0]_vars

\* A code review ended by a limit at the top of its third iteration, with
\* four turns.
C29_Witness ==
    /\ Returned
    /\ task = "code_review"
    /\ Outcome.stopped_reason \in {"max_tokens", "max_cost"}
    /\ Outcome.iterations = 3
    /\ Len(Outcome.conversation_history) = 4

\* A development run stopped for no progress in its third iteration, with
\* seven turns.
C29_DevelopmentWitness ==
    /\ Returned
    /\ task = "code_development"
    /\ Outcome.stopped_reason = "no_progress"
    /\ Outcome.iterations = 3
    /\ Len(Outcome.conversation_history) = 7

\* ------------------------------------------------------ empty submissions

EmptyText == <<>>

\* C30: with early_stop_similarity > 0 an empty submission never counts as
\* stagnation: a progress check whose current or stored submission is the
\* empty text sets the streak to 0 and answers True, so the detector never
\* answers False on an empty submission or right after one, and a developer
\* who returns the empty text every time is never stopped for no progress.
C30_EmptySubmissionResetsStreak ==
    /\ []((early_stop_similarity > 0 /\ pc = "progress_stop") =>
            previous_submission_text # <<EmptyText>>)
    /\ []((early_stop_similarity > 0
             /\ previous_submission_text = <<EmptyText>>) =>
            no_progress_count = 0 /\ pc = "progress_ok")
    /\ [][(/\ iterations' = iterations + 1
           /\ early_stop_similarity > 0
           /\ previous_submission_text # <<>>
           /\ \/ previous_submission_text = <<EmptyText>>
              \/ previous_submission_text' = <<EmptyText>>) =>
            /\ no_progress_count' = 0
            /\ pc' = "progress_ok"]_vars

\* The same seen in the runs: a run stopped for no progress has a last
\* checked submission, and the one before it, that are not empty.
C30_EmptyRunsNeverStopped ==
    (early_stop_similarity > 0 /\ stopped_reason = "no_progress") =>
        LET subs == CheckedSubmissions IN
        /\ Len(subs) >= 2
        /\ subs[Len(subs)] # EmptyText
        /\ subs[Len(subs) - 1] # EmptyText

\* MaxChecks checks passed with max_no_progress = 2, the last one on an
\* empty submission.
C30_Witness ==
    /\ pc = "progress_ok"
    /\ early_stop_similarity = 75
    /\ max_no_progress = 2
    /\ iterations = MaxChecks
    /\ previous_submission_text = <<EmptyText>>
    /\ no_progress_count = 0

\* ----------------------------------------------------------- phase labels

\* The phase a turn of a run of kind t is to carry, by its position i and
\* its role.
LabelFor(t, i, role) ==
    CASE t = "project_planning" -> PLANNING
      [] t = "code_review" -> REVIEW
      [] t = "code_development" /\ i <= 2 -> PLANNING
      [] OTHER -> IF role = "developer" THEN IMPLEMENTATION ELSE REVIEW

\* C31: no turn is ever recorded under the phase APPROVED, which only a
\* result carries; every turn of a planning run is recorded under PLANNING
\* and every turn of a code review under REVIEW; in a development run the
\* plan and its review are recorded under PLANNING; and in the loops of
\* development and documentation runs every developer turn is recorded
\* under IMPLEMENTATION and every manager turn under REVIEW.
C31_TurnPhaseLabels ==
    /\ \A i \in 1..Len(conversation_history) :
         /\ conversation_history[i].phase # APPROVED
         /\ conversation_history[i].phase
              = LabelFor(task, i, conversation_history[i].role)
    /\ Returned =>
         /\ Outcome.conversation_history = conversation_history
         /\ Outcome.phase = APPROVED <=> Outcome.stopped_reason = "approved"

\* An approved development run of four turns: its result carries APPROVED
\* and its last turn REVIEW.
C31_Witness ==
    /\ Returned
    /\ task = "code_development"
    /\ Outcome.phase = APPROVED
    /\ Len(Outcome.conversation_history) = 4
    /\ Outcome.conversation_history[1].phase = PLANNING
    /\ Outcome.conversation_history[2].phase = PLANNING
    /\ Outcome.conversation_history[3].phase = IMPLEMENTATION
    /\ Outcome.conversation_history[4].phase = REVIEW

\* An approved documentation run: its last turn carries REVIEW.
C31_DocumentationWitness ==
    /\ Returned
    /\ task = "documentation"
    /\ Outcome.phase = APPROVED
    /\ Len(Outcome.conversation_history) = 4
    /\ Outcome.conversation_history[3].phase = IMPLEMENTATION
    /\ Outcome.conversation_history[4].phase = REVIEW

====
